---- MODULE Spec2Model ----
(***************************************************************************)
(* Signaling and control-arbitration server of portalbot.                  *)
(*                                                                         *)
(* Spec       : the server package (ConnectionManager, SpaceManager,       *)
(*              RobotControlHandler) driven by one dispatch loop, under    *)
(*              the messages of the space and control protocol,            *)
(*              well-formed or not.                                        *)
(* QueueSpec  : the same package under the messages that change the        *)
(*              registries, with one space served by a robot.              *)
(* DeepSpec   : the same package on longer runs of well-formed traffic.    *)
(* LeaseSpec  : the control lease of one space: grant, release, promotion  *)
(*              and the disconnect of a controller, a waiter or the robot. *)
(* RelaySpec  : WebRTCSignaling's control-plane handlers and set_angles,   *)
(*              on top of joins, identifications and control requests.     *)
(* PublicSpec : the handlers written inline in public_server.py, which     *)
(*              keep the same registries as module-level globals.          *)
(* RaceSpec   : the lease handlers and the disconnect cascade as tasks that *)
(*              are suspended at each outbound send and interleave there.  *)
(* EndpointSpec : websocket_endpoint of public_server.py: the receive loop  *)
(*              over text frames, well-formed or not, and its exits.       *)
(* ConserveSpec : the lease traffic of one space with the set of clients   *)
(*              whose request is outstanding kept as history.              *)
(*                                                                         *)
(* A client id is a positive integer (ids are uuid4 strings in the code    *)
(* and are never issued twice); a websocket is identified with the id of   *)
(* its connection.  Python's None / missing / empty payload value is ""    *)
(* for strings and 0 for client ids (both are falsy in the code).          *)
(* Every handler is one atomic step, except in RaceSpec.                   *)
(***************************************************************************)
EXTENDS Integers, Sequences, FiniteSets, TLC

VARIABLES
    connected_clients,   \* keys of ConnectionManager.connected_clients (sockets)
    client_websockets,   \* keys of ConnectionManager.client_websockets
    client_spaces,       \* client id -> space id or "" (None); domain = dict keys
    robot_clients,       \* dict in insertion order: <<[cid, robot_id, space, controlled_by]>>
    human_clients,       \* set of client ids
    active_spaces,       \* space id -> set of member ids; domain = dict keys
    control_queues,      \* dict in insertion order: <<[space, queue]>>
    next_id,             \* number of connections accepted so far
    steps,               \* number of client messages handled so far
    last,                \* the last step: error text replied ("" if none),
                         \* client that was sent control_granted (0 if none),
                         \* messages relayed or notified to peers
    arrival,             \* history: <<[cid, space]>> in order of enqueueing, still queued
    requesters,          \* history: clients whose control_request was accepted and that
                         \* have not released, been released or disconnected since
    endings,             \* history, per connection: how often its disconnect cascade has
                         \* run, and what ended its receive loop ("" while it runs)
    tasks,               \* per connection: the handler suspended at an outbound send
                         \* (its resumption point, the message being sent, its locals)
    emitted              \* history: (client, robot) pairs of the control_granted
                         \* messages whose send has completed

registries == <<connected_clients, client_websockets, client_spaces, robot_clients,
                human_clients, active_spaces, control_queues>>

vars == <<connected_clients, client_websockets, client_spaces, robot_clients,
          human_clients, active_spaces, control_queues, next_id, steps, last, arrival,
          requesters, endings, tasks, emitted>>

\* history kept only by the specifications that follow a handler's effect on it
tracking == <<requesters, endings, tasks, emitted>>

----------------------------------------------------------------------------
(* Bounds and configuration                                                *)

MaxClients == 3

\* messages handled in a run of Spec and of PublicSpec
MaxSteps == 3

\* messages handled in a run of QueueSpec
MaxQueueSteps == 5

\* messages handled in a run of DeepSpec
MaxDeepSteps == 7

\* messages handled in a run of LeaseSpec
MaxLeaseSteps == 6

\* messages handled in a run of RelaySpec
MaxRelaySteps == 5

\* messages handled in a run of ConserveSpec
MaxConserveSteps == 5

\* frames received in a run of EndpointSpec
MaxEndpointSteps == 3

\* messages handled in a run of SignalSpec
MaxSignalSteps == 4

\* handlers started in a run of BroadcastSpec
MaxBroadcastSteps == 6

\* handlers started in a run of RaceSpec
MaxRaceSteps == 7

NoClient == 0

Clients == 1..MaxClients

\* The space catalog (portalbot_spaces.yml): two enabled spaces and a disabled one.
CatalogIds == {"alpha", "beta", "gamma"}

Catalog ==
    [s \in CatalogIds |->
        CASE s = "alpha" -> [enabled |-> TRUE,  max_participants |-> 2]
          [] s = "beta"  -> [enabled |-> TRUE,  max_participants |-> 3]
          [] s = "gamma" -> [enabled |-> FALSE, max_participants |-> 2]]

\* the robot ids each space authorizes (space_config.robot_ids)
robot_ids ==
    [s \in CatalogIds |->
        CASE s = "alpha" -> {"r1", "r4"}
          [] s = "beta"  -> {"r2"}
          [] s = "gamma" -> {"r1"}]

\* robot_secrets/<robot-id>.key : r3 has a key but no space, r4 a space but no key.
SecretIds == {"r1", "r2", "r3"}

secrets ==
    [r \in SecretIds |->
        CASE r = "r1" -> "k1"
          [] r = "r2" -> "k2"
          [] r = "r3" -> "k3"]

\* Payload values a client may send ("" = field missing or empty).
SpaceInputs  == CatalogIds \cup {"nowhere"}
\* robot_identify payloads: valid ones, one for each way of being invalid, and
\* one for each field being absent
IdentifyInputs ==
    {[robot_id |-> "r1", robot_name |-> "Portalbot", space |-> "alpha",   secret_key |-> "k1"],
     [robot_id |-> "r2", robot_name |-> "Portalbot", space |-> "beta",    secret_key |-> "k2"],
     [robot_id |-> "r1", robot_name |-> "Portalbot", space |-> "gamma",   secret_key |-> "k1"],
     [robot_id |-> "r1", robot_name |-> "Portalbot", space |-> "alpha",   secret_key |-> "k2"],
     [robot_id |-> "r4", robot_name |-> "Portalbot", space |-> "alpha",   secret_key |-> "k1"],
     [robot_id |-> "r2", robot_name |-> "Portalbot", space |-> "alpha",   secret_key |-> "k2"],
     [robot_id |-> "r3", robot_name |-> "Portalbot", space |-> "beta",    secret_key |-> "k3"],
     [robot_id |-> "r1", robot_name |-> "Portalbot", space |-> "nowhere", secret_key |-> "k1"],
     [robot_id |-> "",   robot_name |-> "Portalbot", space |-> "alpha",   secret_key |-> "k1"],
     [robot_id |-> "r1", robot_name |-> "",          space |-> "alpha",   secret_key |-> "k1"],
     [robot_id |-> "r1", robot_name |-> "Portalbot", space |-> "",        secret_key |-> "k1"],
     [robot_id |-> "r1", robot_name |-> "Portalbot", space |-> "alpha",   secret_key |-> ""]}

----------------------------------------------------------------------------
(* Generic helpers                                                          *)

Min(S) == CHOOSE x \in S : \A y \in S : x <= y

RECURSIVE SortedSeq(_)
SortedSeq(S) == IF S = {} THEN <<>> ELSE <<Min(S)>> \o SortedSeq(S \ {Min(S)})

Range(q) == {q[i] : i \in 1..Len(q)}

IndexOf(q, x) == Min({i \in 1..Len(q) : q[i] = x})

RemoveAt(q, i) == SubSeq(q, 1, i - 1) \o SubSeq(q, i + 1, Len(q))

\* deque.remove(x): removes the first occurrence
RemoveFirst(q, x) == IF x \in Range(q) THEN RemoveAt(q, IndexOf(q, x)) ELSE q

DropKey(f, k) == [x \in DOMAIN f \ {k} |-> f[x]]

PutKey(f, k, v) == [x \in DOMAIN f \cup {k} |-> IF x = k THEN v ELSE f[x]]

\* text: error text, reason or space id; ref: the client id or queue position carried
Msg(to, type, text, ref) == [to |-> to, type |-> type, text |-> text, ref |-> ref]

\* A connection's handler: pc is where it goes on when the send it is suspended
\* at completes ("idle": no handler running), pending the message of that send;
\* robot, space, waiters, ret are its locals (ret: what follows _grant_next_controller).
\* attached: the local queue is still the deque kept in control_queues;
\* local_empty: whether it was empty when it was taken out of control_queues;
\* dropped: the step took a non-empty deque out of control_queues;
\* replaced: the controller a promotion has overwritten (0 if the lease was VACANT);
\* closing: the handler is the connection's disconnect cascade;
\* iterating: the member set a broadcast loop started on (attached: that set is
\* still the one kept in active_spaces);
\* raised: a handler of the connection has ended with an exception.
Idle ==
    [pc |-> "idle", pending |-> Msg(NoClient, "", "", NoClient), robot |-> NoClient,
     space |-> "", waiters |-> <<>>, ret |-> "done", attached |-> TRUE,
     local_empty |-> TRUE, dropped |-> FALSE, replaced |-> NoClient, closing |-> FALSE,
     iterating |-> {}, raised |-> FALSE]

\* The registries as one record, threaded through the method calls of a handler;
\* sent collects, in order, the messages the handler emits.
State ==
    [connected_clients |-> connected_clients,
     client_websockets |-> client_websockets,
     client_spaces     |-> client_spaces,
     robot_clients     |-> robot_clients,
     human_clients     |-> human_clients,
     active_spaces     |-> active_spaces,
     control_queues    |-> control_queues,
     sent              |-> <<>>]

\* the registries a handler leaves, as the next handler finds them
Then(S) == [S EXCEPT !.sent = <<>>]

----------------------------------------------------------------------------
(* ConnectionManager                                                        *)

add_connection(S, c) ==
    [S EXCEPT !.connected_clients = @ \cup {c},
              !.client_websockets = @ \cup {c},
              !.client_spaces     = PutKey(@, c, "")]

remove_connection(S, c) == [S EXCEPT !.connected_clients = @ \ {c}]

get_websocket(S, c) == c \in S.client_websockets

RobotIdx(S, c) == {i \in 1..Len(S.robot_clients) : S.robot_clients[i].cid = c}

is_robot(S, c) == RobotIdx(S, c) # {}

get_robot_info(S, c) == S.robot_clients[Min(RobotIdx(S, c))]

\* dict assignment: an existing key keeps its position, a new key goes last
register_robot(S, c, robot_id, space) ==
    LET info == [cid |-> c, robot_id |-> robot_id, space |-> space, controlled_by |-> NoClient]
    IN  IF is_robot(S, c)
        THEN [S EXCEPT !.robot_clients[Min(RobotIdx(S, c))] = info]
        ELSE [S EXCEPT !.robot_clients = Append(@, info)]

set_robot_controller(S, r, controller) ==
    IF is_robot(S, r)
    THEN [S EXCEPT !.robot_clients[Min(RobotIdx(S, r))].controlled_by = controller]
    ELSE S

get_robot_controller(S, r) ==
    IF is_robot(S, r) THEN get_robot_info(S, r).controlled_by ELSE NoClient

register_human(S, c) == [S EXCEPT !.human_clients = @ \cup {c}]

is_human(S, c) == c \in S.human_clients

get_client_space(S, c) == IF c \in DOMAIN S.client_spaces THEN S.client_spaces[c] ELSE ""

set_client_space(S, c, space) == [S EXCEPT !.client_spaces = PutKey(@, c, space)]

\* websocket.send_json on the handler's own socket
send_message(S, c, type, text, ref) == [S EXCEPT !.sent = Append(@, Msg(c, type, text, ref))]

send_to_client(S, c, type, text, ref) ==
    IF get_websocket(S, c) THEN send_message(S, c, type, text, ref) ELSE S

cleanup_client(S, c) ==
    [S EXCEPT !.robot_clients     = SelectSeq(@, LAMBDA e : e.cid # c),
              !.human_clients     = @ \ {c},
              !.client_spaces     = DropKey(@, c),
              !.client_websockets = @ \ {c}]

\* first robot, in dict order, whose controlled_by is the given client; 0 if none
find_robot_by_controller(S, controller) ==
    LET hits == {i \in 1..Len(S.robot_clients) : S.robot_clients[i].controlled_by = controller}
    IN  IF hits = {} THEN NoClient ELSE S.robot_clients[Min(hits)].cid

----------------------------------------------------------------------------
(* SpaceManager                                                             *)

get_space_by_id(space) == space \in CatalogIds

get_space_participants(S, space) ==
    IF space \in DOMAIN S.active_spaces THEN S.active_spaces[space] ELSE {}

RECURSIVE SendEach(_, _, _, _, _)
SendEach(S, targets, type, text, ref) ==
    IF targets = <<>> THEN S
    ELSE SendEach(send_to_client(S, Head(targets), type, text, ref), Tail(targets), type, text, ref)

\* recipients are taken in ascending id order (the code iterates a set)
broadcast_to_space(S, space, type, text, ref, exclude) ==
    IF space \notin DOMAIN S.active_spaces THEN S
    ELSE SendEach(S, SortedSeq(S.active_spaces[space] \ {exclude}), type, text, ref)

\* returns [st, ok]
\* variant of join_space that refuses only above capacity
join_space_over(S, c, space) ==
    IF ~get_space_by_id(space)
    THEN [st |-> send_message(S, c, "error", "space does not exist", NoClient), ok |-> FALSE]
    ELSE IF ~Catalog[space].enabled
    THEN [st |-> send_message(S, c, "error", "space unavailable", NoClient), ok |-> FALSE]
    ELSE
      LET S1 == IF space \in DOMAIN S.active_spaces THEN S
                ELSE [S EXCEPT !.active_spaces = PutKey(@, space, {})]
      IN  IF Cardinality(S1.active_spaces[space]) > Catalog[space].max_participants
          THEN [st |-> send_message(S1, c, "error", "space is full", NoClient), ok |-> FALSE]
          ELSE
            LET S2 == [S1 EXCEPT !.active_spaces[space] = @ \cup {c}]
                S3 == set_client_space(S2, c, space)
                S4 == send_message(S3, c, "joined_space", space, NoClient)
                S5 == broadcast_to_space(S4, space, "user_joined", "", c, c)
            IN  [st |-> S5, ok |-> TRUE]

join_space(S, c, space) ==
    IF ~get_space_by_id(space)
    THEN [st |-> send_message(S, c, "error", "space does not exist", NoClient), ok |-> FALSE]
    ELSE IF ~Catalog[space].enabled
    THEN [st |-> send_message(S, c, "error", "space unavailable", NoClient), ok |-> FALSE]
    ELSE
      LET S1 == IF space \in DOMAIN S.active_spaces THEN S
                ELSE [S EXCEPT !.active_spaces = PutKey(@, space, {})]
      IN  IF Cardinality(S1.active_spaces[space]) >= Catalog[space].max_participants
          THEN [st |-> send_message(S1, c, "error", "space is full", NoClient), ok |-> FALSE]
          ELSE
            LET S2 == [S1 EXCEPT !.active_spaces[space] = @ \cup {c}]
                S3 == set_client_space(S2, c, space)
                S4 == send_message(S3, c, "joined_space", space, NoClient)
                S5 == broadcast_to_space(S4, space, "user_joined", "", c, c)
            IN  [st |-> S5, ok |-> TRUE]

\* variant of leave_space that keeps a space whose last member has left
leave_space_keep_empty(S, c) ==
    LET space_name == get_client_space(S, c)
    IN  IF space_name = "" THEN S
        ELSE
          LET S1 == IF space_name \in DOMAIN S.active_spaces
                    THEN LET A == [S EXCEPT !.active_spaces[space_name] = @ \ {c}]
                         IN  broadcast_to_space(A, space_name, "user_left", "", c, c)
                    ELSE S
          IN  set_client_space(S1, c, "")

leave_space(S, c) ==
    LET space_name == get_client_space(S, c)
    IN  IF space_name = "" THEN S
        ELSE
          LET S1 == IF space_name \in DOMAIN S.active_spaces
                    THEN LET A == [S EXCEPT !.active_spaces[space_name] = @ \ {c}]
                             B == broadcast_to_space(A, space_name, "user_left", "", c, c)
                         IN  IF B.active_spaces[space_name] = {}
                             THEN [B EXCEPT !.active_spaces = DropKey(@, space_name)]
                             ELSE B
                    ELSE S
          IN  set_client_space(S1, c, "")

----------------------------------------------------------------------------
(* RobotControlHandler                                                      *)

QueueIdx(S, space) == {i \in 1..Len(S.control_queues) : S.control_queues[i].space = space}

has_queue(S, space) == QueueIdx(S, space) # {}

\* control_queues.get(space); an absent key reads as the empty queue
queue_of(S, space) ==
    IF has_queue(S, space) THEN S.control_queues[Min(QueueIdx(S, space))].queue ELSE <<>>

set_queue(S, space, q) == [S EXCEPT !.control_queues[Min(QueueIdx(S, space))].queue = q]

\* variant of pop_queue that leaves the queue object in the dict
pop_queue_kept(S, space) == S

pop_queue(S, space) ==
    [S EXCEPT !.control_queues = SelectSeq(@, LAMBDA e : e.space # space)]

_get_queue(S, space) ==
    IF has_queue(S, space) THEN S
    ELSE [S EXCEPT !.control_queues = Append(@, [space |-> space, queue |-> <<>>])]

\* variant of _remove_queued_controller that drops the whole queue holding the client
_remove_queued_controller_all(S, c) ==
    LET hits == {i \in 1..Len(S.control_queues) : c \in Range(S.control_queues[i].queue)}
    IN  IF hits = {} THEN S
        ELSE [S EXCEPT !.control_queues = RemoveAt(@, Min(hits))]

\* removes the client from the first queue (dict order) that holds it, and only from that one
_remove_queued_controller(S, c) ==
    LET hits == {i \in 1..Len(S.control_queues) : c \in Range(S.control_queues[i].queue)}
    IN  IF hits = {} THEN S
        ELSE LET i  == Min(hits)
                 q  == RemoveFirst(S.control_queues[i].queue, c)
             IN  IF q = <<>>
                 THEN [S EXCEPT !.control_queues = RemoveAt(@, i)]
                 ELSE [S EXCEPT !.control_queues[i].queue = q]

\* first robot, in dict order, whose profile names the space; 0 if none
_get_robot_client_id_for_space(S, space) ==
    LET hits == {i \in 1..Len(S.robot_clients) : S.robot_clients[i].space = space}
    IN  IF hits = {} THEN NoClient ELSE S.robot_clients[Min(hits)].cid

_grant_control(S, robot, controller) ==
    LET S1 == set_robot_controller(S, robot, controller)
        S2 == register_human(S1, controller)
    IN  send_to_client(S2, controller, "control_granted", "", robot)

\* variant of _grant_next_controller that serves the newest live requester
_grant_next_controller_newest(S, robot, space) ==
    IF ~has_queue(S, space) THEN S
    ELSE
      LET q == queue_of(S, space)
      IN  IF Len(q) = 0 THEN pop_queue(S, space)
          ELSE
            LET live == {i \in 1..Len(q) : get_websocket(S, q[i])}
                k    == IF live = {} THEN 1 ELSE CHOOSE i \in live : \A j \in live : j <= i
                rest == SubSeq(q, 1, k - 1)
                S1   == set_queue(S, space, rest)
                S2   == IF live = {} THEN S1 ELSE _grant_control(S1, robot, q[k])
            IN  IF rest = <<>> THEN pop_queue(S2, space) ELSE S2

\* pops until a requester with a live websocket is found, grants to it, drops an emptied queue
_grant_next_controller(S, robot, space) ==
    IF ~has_queue(S, space) THEN S
    ELSE
      LET q == queue_of(S, space)
      IN  IF Len(q) = 0 THEN pop_queue(S, space)
          ELSE
            LET live == {i \in 1..Len(q) : get_websocket(S, q[i])}
                k    == IF live = {} THEN Len(q) ELSE Min(live)
                rest == SubSeq(q, k + 1, Len(q))
                S1   == set_queue(S, space, rest)
                S2   == IF live = {} THEN S1 ELSE _grant_control(S1, robot, q[k])
            IN  IF rest = <<>> THEN pop_queue(S2, space) ELSE S2

\* variant of validate_robot that accepts a robot id without a stored secret
validate_robot_lax(robot_id, secret_key) ==
    IF robot_id \notin DOMAIN secrets THEN TRUE ELSE secrets[robot_id] = secret_key

validate_robot(robot_id, secret_key) ==
    IF robot_id \notin DOMAIN secrets THEN FALSE ELSE secrets[robot_id] = secret_key

robot_has_access_to_space(robot_id, space_allowed_robots) == robot_id \in space_allowed_robots

\* variant of handle_robot_identify that leaves the waiters queued
handle_robot_identify_no_promotion(S, c, robot_id, robot_name, space_id, secret_key) ==
    IF robot_id = "" \/ robot_name = "" \/ space_id = "" \/ secret_key = ""
    THEN send_message(S, c, "error", "identification requires all fields", NoClient)
    ELSE IF ~get_space_by_id(space_id)
    THEN send_message(S, c, "error", "space does not exist", NoClient)
    ELSE IF ~robot_has_access_to_space(robot_id, robot_ids[space_id])
    THEN send_message(S, c, "error", "robot not authorized for space", NoClient)
    ELSE IF ~validate_robot(robot_id, secret_key)
    THEN send_message(S, c, "error", "invalid robot credentials", NoClient)
    ELSE
      LET S1 == register_robot(S, c, robot_id, space_id)
          J  == join_space(S1, c, space_id)
      IN  IF ~J.ok THEN J.st
          ELSE
            LET S2 == send_message(J.st, c, "joined_space", space_id, c)
            IN  broadcast_to_space(S2, space_id, "robot_joined", "", c, c)

handle_robot_identify(S, c, robot_id, robot_name, space_id, secret_key) ==
    IF robot_id = "" \/ robot_name = "" \/ space_id = "" \/ secret_key = ""
    THEN send_message(S, c, "error", "identification requires all fields", NoClient)
    ELSE IF ~get_space_by_id(space_id)
    THEN send_message(S, c, "error", "space does not exist", NoClient)
    ELSE IF ~robot_has_access_to_space(robot_id, robot_ids[space_id])
    THEN send_message(S, c, "error", "robot not authorized for space", NoClient)
    ELSE IF ~validate_robot(robot_id, secret_key)
    THEN send_message(S, c, "error", "invalid robot credentials", NoClient)
    ELSE
      LET S1 == register_robot(S, c, robot_id, space_id)
          J  == join_space(S1, c, space_id)
      IN  IF ~J.ok THEN J.st
          ELSE
            LET S2 == send_message(J.st, c, "joined_space", space_id, c)
                S3 == broadcast_to_space(S2, space_id, "robot_joined", "", c, c)
            IN  IF get_robot_controller(S3, c) = NoClient
                THEN _grant_next_controller(S3, c, space_id)
                ELSE S3

\* variant of handle_control_request that enqueues without looking for the requester
handle_control_request_no_dedup(S, c) ==
    LET space_id == get_client_space(S, c)
        robot_id == _get_robot_client_id_for_space(S, space_id)
    IN  IF space_id = ""
        THEN send_message(S, c, "error", "you must join a space first", NoClient)
        ELSE IF robot_id = NoClient
        THEN LET S1 == _get_queue(S, space_id)
                 S2 == set_queue(S1, space_id, Append(queue_of(S1, space_id), c))
             IN  send_message(S2, c, "control_pending", "", Len(queue_of(S2, space_id)))
        ELSE IF find_robot_by_controller(S, c) # NoClient
        THEN send_message(S, c, "error", "you already control a robot", NoClient)
        ELSE
          LET S1    == register_human(S, c)
              queue == queue_of(S1, space_id)
          IN  IF get_robot_controller(S1, robot_id) = NoClient /\ queue = <<>>
              THEN _grant_control(S1, robot_id, c)
              ELSE
                LET S2 == _get_queue(S1, space_id)
                    S3 == set_queue(S2, space_id, Append(queue_of(S2, space_id), c))
                IN  send_message(S3, c, "control_pending", "", Len(queue_of(S3, space_id)))

\* variant of handle_control_request that refuses a request in a space without robot
handle_control_request_needs_robot(S, c) ==
    LET space_id == get_client_space(S, c)
        robot_id == _get_robot_client_id_for_space(S, space_id)
    IN  IF space_id = ""
        THEN send_message(S, c, "error", "you must join a space first", NoClient)
        ELSE IF robot_id = NoClient
        THEN send_message(S, c, "error", "no robot in this space", NoClient)
        ELSE IF find_robot_by_controller(S, c) # NoClient
        THEN send_message(S, c, "error", "you already control a robot", NoClient)
        ELSE
          LET S1    == register_human(S, c)
              queue == queue_of(S1, space_id)
          IN  IF c \in Range(queue)
              THEN send_message(S1, c, "control_pending", "", IndexOf(queue, c))
              ELSE IF get_robot_controller(S1, robot_id) = NoClient /\ queue = <<>>
              THEN _grant_control(S1, robot_id, c)
              ELSE
                LET S2 == _get_queue(S1, space_id)
                    S3 == set_queue(S2, space_id, Append(queue_of(S2, space_id), c))
                IN  send_message(S3, c, "control_pending", "", Len(queue_of(S3, space_id)))

handle_control_request(S, c) ==
    LET space_id == get_client_space(S, c)
        robot_id == _get_robot_client_id_for_space(S, space_id)
    IN  IF space_id = ""
        THEN send_message(S, c, "error", "you must join a space first", NoClient)
        ELSE IF robot_id = NoClient
        THEN LET S1 == _get_queue(S, space_id)
                 S2 == IF c \in Range(queue_of(S1, space_id)) THEN S1
                       ELSE set_queue(S1, space_id, Append(queue_of(S1, space_id), c))
             IN  send_message(S2, c, "control_pending", "", IndexOf(queue_of(S2, space_id), c))
        ELSE IF find_robot_by_controller(S, c) # NoClient
        THEN send_message(S, c, "error", "you already control a robot", NoClient)
        ELSE
          LET S1    == register_human(S, c)
              queue == queue_of(S1, space_id)
          IN  IF c \in Range(queue)
              THEN send_message(S1, c, "control_pending", "", IndexOf(queue, c))
              ELSE IF get_robot_controller(S1, robot_id) = NoClient /\ queue = <<>>
              THEN _grant_control(S1, robot_id, c)
              ELSE
                LET S2 == _get_queue(S1, space_id)
                    S3 == set_queue(S2, space_id, Append(queue_of(S2, space_id), c))
                IN  send_message(S3, c, "control_pending", "", Len(queue_of(S3, space_id)))

handle_control_granted(S, c) ==
    send_message(S, c, "error", "unauthorized control_granted rejected", NoClient)

\* variant of handle_control_release whose human branch notifies the releasing human
handle_control_release_to_sender(S, c) ==
    IF is_robot(S, c)
    THEN
      LET controller_id == get_robot_controller(S, c)
          space_id      == get_robot_info(S, c).space
          S1 == IF controller_id # NoClient
                THEN send_to_client(set_robot_controller(S, c, NoClient),
                                    controller_id, "control_released", "", c)
                ELSE S
      IN  IF space_id # "" THEN _grant_next_controller(S1, c, space_id) ELSE S1
    ELSE
      LET S1       == _remove_queued_controller(S, c)
          robot_id == find_robot_by_controller(S1, c)
      IN  IF robot_id = NoClient THEN S1
          ELSE
            LET space_id == get_robot_info(S1, robot_id).space
                S2 == set_robot_controller(S1, robot_id, NoClient)
                S3 == send_to_client(S2, c, "control_released", "", robot_id)
            IN  IF space_id # "" THEN _grant_next_controller(S3, robot_id, space_id) ELSE S3

handle_control_release(S, c) ==
    IF is_robot(S, c)
    THEN
      LET controller_id == get_robot_controller(S, c)
          space_id      == get_robot_info(S, c).space
          S1 == IF controller_id # NoClient
                THEN send_to_client(set_robot_controller(S, c, NoClient),
                                    controller_id, "control_released", "", c)
                ELSE S
      IN  IF space_id # "" THEN _grant_next_controller(S1, c, space_id) ELSE S1
    ELSE
      LET S1       == _remove_queued_controller(S, c)
          robot_id == find_robot_by_controller(S1, c)
      IN  IF robot_id = NoClient THEN S1
          ELSE
            LET space_id == get_robot_info(S1, robot_id).space
                S2 == set_robot_controller(S1, robot_id, NoClient)
                S3 == send_to_client(S2, robot_id, "control_released", "", c)
            IN  IF space_id # "" THEN _grant_next_controller(S3, robot_id, space_id) ELSE S3

\* variant of handle_robot_disconnect that drops the queue without telling the waiters
handle_robot_disconnect_silent(S, c) ==
    IF ~is_robot(S, c) THEN S
    ELSE
      LET space_id      == get_robot_info(S, c).space
          controller_id == get_robot_info(S, c).controlled_by
          S1 == IF controller_id # NoClient
                THEN send_to_client(set_robot_controller(S, c, NoClient),
                                    controller_id, "control_released", "Robot disconnected", c)
                ELSE S
      IN  IF space_id # "" THEN pop_queue(S1, space_id) ELSE S1

handle_robot_disconnect(S, c) ==
    IF ~is_robot(S, c) THEN S
    ELSE
      LET space_id      == get_robot_info(S, c).space
          controller_id == get_robot_info(S, c).controlled_by
          S1 == IF controller_id # NoClient
                THEN send_to_client(set_robot_controller(S, c, NoClient),
                                    controller_id, "control_released", "Robot disconnected", c)
                ELSE S
          queue == IF space_id # "" THEN queue_of(S1, space_id) ELSE <<>>
          S2 == IF space_id # "" THEN pop_queue(S1, space_id) ELSE S1
      IN  SendEach(S2, queue, "control_released", "Robot disconnected", c)

handle_human_disconnect(S, c) ==
    IF ~is_human(S, c) THEN S
    ELSE
      LET S1       == _remove_queued_controller(S, c)
          robot_id == find_robot_by_controller(S1, c)
      IN  IF robot_id = NoClient THEN S1
          ELSE
            LET space_id == get_robot_info(S1, robot_id).space
                S2 == set_robot_controller(S1, robot_id, NoClient)
                S3 == send_to_client(S2, robot_id, "control_released", "Controller disconnected", c)
            IN  IF space_id # "" THEN _grant_next_controller(S3, robot_id, space_id) ELSE S3

\* variant of handle_set_angles that forwards without comparing the sender with the controller
handle_set_angles_unchecked(S, c, robot_id, angles) ==
    IF robot_id = NoClient \/ ~is_robot(S, robot_id)
    THEN send_message(S, c, "error", "invalid robot_id", NoClient)
    ELSE IF angles = ""
    THEN send_message(S, c, "error", "angles data is required", NoClient)
    ELSE send_to_client(S, robot_id, "set_angles", angles, NoClient)

handle_set_angles(S, c, robot_id, angles) ==
    IF robot_id = NoClient \/ ~is_robot(S, robot_id)
    THEN send_message(S, c, "error", "invalid robot_id", NoClient)
    ELSE IF angles = ""
    THEN send_message(S, c, "error", "angles data is required", NoClient)
    ELSE IF get_robot_controller(S, robot_id) # c
    THEN send_message(S, c, "error", "you do not control this robot", NoClient)
    ELSE send_to_client(S, robot_id, "set_angles", angles, NoClient)

----------------------------------------------------------------------------
(* WebRTCSignaling: the handlers that broadcast within the sender's space, *)
(* then the control-plane handlers                                          *)

\* a frame without space or payload is dropped; any other goes to every other
\* member of the sender's space
handle_offer(S, c, offer) ==
    LET space_name == get_client_space(S, c)
    IN  IF space_name = "" \/ offer = "" THEN S
        ELSE broadcast_to_space(S, space_name, "offer", offer, c, c)

handle_answer(S, c, answer) ==
    LET space_name == get_client_space(S, c)
    IN  IF space_name = "" \/ answer = "" THEN S
        ELSE broadcast_to_space(S, space_name, "answer", answer, c, c)

handle_ice_candidate(S, c, candidate) ==
    LET space_name == get_client_space(S, c)
    IN  IF space_name = "" \/ candidate = "" THEN S
        ELSE broadcast_to_space(S, space_name, "ice_candidate", candidate, c, c)

\* first robot, in dict order, whose profile names the space; 0 if none
_get_robot_client_in_space(S, space_name) ==
    LET hits == {i \in 1..Len(S.robot_clients) : S.robot_clients[i].space = space_name}
    IN  IF hits = {} THEN NoClient ELSE S.robot_clients[Min(hits)].cid

\* variant of handle_control_offer that relays the offer of any member of the robot's space
handle_control_offer_any(S, c, offer) ==
    LET space_name      == get_client_space(S, c)
        robot_client_id == _get_robot_client_in_space(S, space_name)
    IN  IF space_name = "" \/ offer = "" THEN S
        ELSE IF robot_client_id = NoClient THEN S
        ELSE send_to_client(S, robot_client_id, "control_offer", offer, c)

\* an offer without space or payload, or in a space without robot, is only logged
handle_control_offer(S, c, offer) ==
    LET space_name      == get_client_space(S, c)
        robot_client_id == _get_robot_client_in_space(S, space_name)
    IN  IF space_name = "" \/ offer = "" THEN S
        ELSE IF robot_client_id = NoClient THEN S
        ELSE IF get_robot_controller(S, robot_client_id) # c
        THEN send_message(S, c, "error", "you do not currently control this robot", NoClient)
        ELSE send_to_client(S, robot_client_id, "control_offer", offer, c)

\* variant of handle_control_answer that hands the answer to the whole space
handle_control_answer_space(S, c, answer) ==
    LET space_name == get_client_space(S, c)
    IN  IF space_name = "" \/ answer = "" THEN S
        ELSE IF ~is_robot(S, c)
        THEN send_message(S, c, "error", "only robot clients can send control answers", NoClient)
        ELSE broadcast_to_space(S, space_name, "control_answer", answer, c, c)

\* an answer without space or payload is only logged, as is one of a robot without controller
handle_control_answer(S, c, answer) ==
    LET space_name    == get_client_space(S, c)
        controller_id == get_robot_controller(S, c)
    IN  IF space_name = "" \/ answer = "" THEN S
        ELSE IF ~is_robot(S, c)
        THEN send_message(S, c, "error", "only robot clients can send control answers", NoClient)
        ELSE IF controller_id = NoClient THEN S
        ELSE send_to_client(S, controller_id, "control_answer", answer, c)

----------------------------------------------------------------------------
(* Dispatch loop                                                            *)

\* the (client, space) pairs currently waiting in some queue
Queued(S) ==
    UNION {{[cid |-> e.queue[j], space |-> e.space] : j \in 1..Len(e.queue)} :
              e \in Range(S.control_queues)}

RECURSIVE SetToSeq(_)
SetToSeq(T) == IF T = {} THEN <<>>
               ELSE LET x == CHOOSE y \in T : TRUE IN <<x>> \o SetToSeq(T \ {x})

\* history of enqueueing: entries leave when the pair is no longer queued,
\* a newly queued pair goes last
NextArrival(S) ==
    LET kept == SelectSeq(arrival, LAMBDA p : p \in Queued(S))
    IN  kept \o SetToSeq(Queued(S) \ Range(kept))

\* the registries after a handler has run
Install(S) ==
    /\ connected_clients' = S.connected_clients
    /\ client_websockets' = S.client_websockets
    /\ client_spaces'     = S.client_spaces
    /\ robot_clients'     = S.robot_clients
    /\ human_clients'     = S.human_clients
    /\ active_spaces'     = S.active_spaces
    /\ control_queues'    = S.control_queues
    /\ arrival'           = NextArrival(S)

ErrorOf(S) ==
    LET errs == {i \in 1..Len(S.sent) : S.sent[i].type = "error"}
    IN  IF errs = {} THEN "" ELSE S.sent[Min(errs)].text

GrantedOf(S) ==
    LET grants == {i \in 1..Len(S.sent) : S.sent[i].type = "control_granted"}
    IN  IF grants = {} THEN NoClient ELSE S.sent[Min(grants)].to

\* message types that carry one peer's signaling, command or lease change to another
PeerTypes == {"control_offer", "control_answer", "set_angles", "control_released", "robot_joined"}

RelayedOf(S) == {m \in Range(S.sent) : m.type \in PeerTypes}

Outcome(S) == [error |-> ErrorOf(S), granted |-> GrantedOf(S), relayed |-> RelayedOf(S)]

\* one message of a connected client is dispatched to its handler
Apply(S) ==
    /\ steps' = steps + 1
    /\ last'  = Outcome(S)
    /\ Install(S)
    /\ UNCHANGED <<next_id, tracking>>

\* disconnect cascade: robot part, human part, leave the space, registry cleanup,
\* then the socket is dropped
handle_disconnect(S, c) ==
    LET S1 == handle_robot_disconnect(S, c)
        S2 == handle_human_disconnect(S1, c)
        S3 == leave_space(S2, c)
        S4 == cleanup_client(S3, c)
    IN  remove_connection(S4, c)

\* accept: a fresh id is registered and told to the client
accept(S, c) == send_message(add_connection(S, c), c, "connected", "", c)

Init ==
    /\ connected_clients = {}
    /\ client_websockets = {}
    /\ client_spaces     = [c \in {} |-> ""]
    /\ robot_clients     = <<>>
    /\ human_clients     = {}
    /\ active_spaces     = [s \in {} |-> {}]
    /\ control_queues    = <<>>
    /\ next_id           = 0
    /\ steps             = 0
    /\ last              = [error |-> "", granted |-> NoClient, relayed |-> {}]
    /\ arrival           = <<>>
    /\ requesters        = {}
    /\ endings           = [c \in Clients |-> [cascades |-> 0, cause |-> ""]]
    /\ tasks             = [c \in Clients |-> Idle]
    /\ emitted           = {}

Connect ==
    /\ next_id < MaxClients
    /\ next_id' = next_id + 1
    /\ last'    = Outcome(accept(State, next_id + 1))
    /\ Install(accept(State, next_id + 1))
    /\ UNCHANGED <<steps, tracking>>

JoinSpace(c, space) ==
    /\ c \in connected_clients
    /\ Apply(join_space(State, c, space).st)

LeaveSpace(c) ==
    /\ c \in connected_clients
    /\ Apply(leave_space(State, c))

RobotIdentify(c, d) ==
    /\ c \in connected_clients
    /\ Apply(handle_robot_identify(State, c, d.robot_id, d.robot_name, d.space, d.secret_key))

ControlRequest(c) ==
    /\ c \in connected_clients
    /\ Apply(handle_control_request(State, c))

ControlGranted(c) ==
    /\ c \in connected_clients
    /\ Apply(handle_control_granted(State, c))

ControlRelease(c) ==
    /\ c \in connected_clients
    /\ Apply(handle_control_release(State, c))

Disconnect(c) ==
    /\ c \in connected_clients
    /\ Apply(handle_disconnect(State, c))

Next ==
    \/ Connect
    \/ \E c \in Clients, space \in SpaceInputs : steps < MaxSteps /\ JoinSpace(c, space)
    \/ \E c \in Clients : steps < MaxSteps /\ LeaveSpace(c)
    \/ \E c \in Clients, d \in IdentifyInputs : steps < MaxSteps /\ RobotIdentify(c, d)
    \/ \E c \in Clients : steps < MaxSteps /\ ControlRequest(c)
    \/ \E c \in Clients : steps < MaxSteps /\ ControlGranted(c)
    \/ \E c \in Clients : steps < MaxSteps /\ ControlRelease(c)
    \/ \E c \in Clients : steps < MaxSteps /\ Disconnect(c)

Spec == Init /\ [][Next]_vars

\* Longer runs of well-formed traffic: joins of enabled spaces, valid
\* identifications, control requests and disconnects.  A message that leaves
\* the registries as they are is a stuttering step here.
Changes(S) ==
    \/ connected_clients # S.connected_clients
    \/ client_websockets # S.client_websockets
    \/ client_spaces     # S.client_spaces
    \/ robot_clients     # S.robot_clients
    \/ human_clients     # S.human_clients
    \/ active_spaces     # S.active_spaces
    \/ control_queues    # S.control_queues

ValidIdentify(d) ==
    /\ d.robot_id # "" /\ d.robot_name # "" /\ d.space # "" /\ d.secret_key # ""
    /\ d.space \in CatalogIds
    /\ d.robot_id \in robot_ids[d.space]
    /\ d.robot_id \in DOMAIN secrets
    /\ secrets[d.robot_id] = d.secret_key

EnabledSpaces == {s \in CatalogIds : Catalog[s].enabled}

DeepNext ==
    \/ Connect
    \/ \E c \in Clients, space \in EnabledSpaces :
          /\ steps < MaxDeepSteps
          /\ Changes(join_space(State, c, space).st)
          /\ JoinSpace(c, space)
    \/ \E c \in Clients, d \in {x \in IdentifyInputs : ValidIdentify(x) /\ x.space \in EnabledSpaces} :
          /\ steps < MaxDeepSteps
          /\ Changes(handle_robot_identify(State, c, d.robot_id, d.robot_name, d.space, d.secret_key))
          /\ RobotIdentify(c, d)
    \/ \E c \in Clients :
          /\ steps < MaxDeepSteps
          /\ Changes(handle_control_request(State, c))
          /\ ControlRequest(c)
    \/ \E c \in Clients : steps < MaxDeepSteps /\ Disconnect(c)

DeepSpec == Init /\ [][DeepNext]_vars

\* The control queue of a space with a robot under every message that changes
\* the registries: joins of any enabled space, robot identification for the
\* space, requests, releases, leaves and disconnects.
QueueSpaces == {"beta"}

QueueNext ==
    \/ Connect
    \/ \E c \in Clients, space \in EnabledSpaces :
          /\ steps < MaxQueueSteps
          /\ Changes(join_space(State, c, space).st)
          /\ JoinSpace(c, space)
    \/ \E c \in Clients, d \in {x \in IdentifyInputs : ValidIdentify(x) /\ x.space \in QueueSpaces} :
          /\ steps < MaxQueueSteps
          /\ Changes(handle_robot_identify(State, c, d.robot_id, d.robot_name, d.space, d.secret_key))
          /\ RobotIdentify(c, d)
    \/ \E c \in Clients :
          /\ steps < MaxQueueSteps
          /\ Changes(handle_control_request(State, c))
          /\ ControlRequest(c)
    \/ \E c \in Clients :
          /\ steps < MaxQueueSteps
          /\ Changes(handle_control_release(State, c))
          /\ ControlRelease(c)
    \/ \E c \in Clients :
          /\ steps < MaxQueueSteps
          /\ Changes(leave_space(State, c))
          /\ LeaveSpace(c)
    \/ \E c \in Clients : steps < MaxQueueSteps /\ Disconnect(c)

QueueSpec == Init /\ [][QueueNext]_vars

\* The lease of the robot of one space: everything that grants, queues,
\* releases or promotes, and the disconnect of any party.
LeaseNext ==
    \/ Connect
    \/ \E c \in Clients, space \in QueueSpaces :
          /\ steps < MaxLeaseSteps
          /\ Changes(join_space(State, c, space).st)
          /\ JoinSpace(c, space)
    \/ \E c \in Clients, d \in {x \in IdentifyInputs : ValidIdentify(x) /\ x.space \in QueueSpaces} :
          /\ steps < MaxLeaseSteps
          /\ Changes(handle_robot_identify(State, c, d.robot_id, d.robot_name, d.space, d.secret_key))
          /\ RobotIdentify(c, d)
    \/ \E c \in Clients :
          /\ steps < MaxLeaseSteps
          /\ Changes(handle_control_request(State, c))
          /\ ControlRequest(c)
    \/ \E c \in Clients :
          /\ steps < MaxLeaseSteps
          /\ Changes(handle_control_release(State, c))
          /\ ControlRelease(c)
    \/ \E c \in Clients : steps < MaxLeaseSteps /\ Disconnect(c)

LeaseSpec == Init /\ [][LeaseNext]_vars

\* Payload values of the relayed messages ("" = field missing or empty).
OfferInputs  == {"", "sdp-offer"}

AnswerInputs == {"", "sdp-answer"}

AnglesInputs == {"", "pan-tilt"}

ControlOffer(c, offer) ==
    /\ c \in connected_clients
    /\ Apply(handle_control_offer(State, c, offer))

ControlAnswer(c, answer) ==
    /\ c \in connected_clients
    /\ Apply(handle_control_answer(State, c, answer))

SetAngles(c, robot_id, angles) ==
    /\ c \in connected_clients
    /\ Apply(handle_set_angles(State, c, robot_id, angles))

\* Signaling and commands between a controller and its robot in one space,
\* among joins, leaves, valid identifications, control requests and releases.
RelayNext ==
    \/ Connect
    \/ \E c \in Clients, space \in QueueSpaces :
          /\ steps < MaxRelaySteps
          /\ Changes(join_space(State, c, space).st)
          /\ JoinSpace(c, space)
    \/ \E c \in Clients, d \in {x \in IdentifyInputs : ValidIdentify(x) /\ x.space \in QueueSpaces} :
          /\ steps < MaxRelaySteps
          /\ Changes(handle_robot_identify(State, c, d.robot_id, d.robot_name, d.space, d.secret_key))
          /\ RobotIdentify(c, d)
    \/ \E c \in Clients :
          /\ steps < MaxRelaySteps
          /\ Changes(handle_control_request(State, c))
          /\ ControlRequest(c)
    \/ \E c \in Clients :
          /\ steps < MaxRelaySteps
          /\ Changes(handle_control_release(State, c))
          /\ ControlRelease(c)
    \/ \E c \in Clients :
          /\ steps < MaxRelaySteps
          /\ Changes(leave_space(State, c))
          /\ LeaveSpace(c)
    \/ \E c \in Clients, offer \in OfferInputs :
          steps < MaxRelaySteps /\ ControlOffer(c, offer)
    \/ \E c \in Clients, answer \in AnswerInputs :
          steps < MaxRelaySteps /\ ControlAnswer(c, answer)
    \/ \E c \in Clients, robot_id \in {NoClient} \cup Clients, angles \in AnglesInputs :
          steps < MaxRelaySteps /\ SetAngles(c, robot_id, angles)

RelaySpec == Init /\ [][RelayNext]_vars

CandidateInputs == {"", "candidate"}

SendOffer(c, offer) ==
    /\ c \in connected_clients
    /\ Apply(handle_offer(State, c, offer))

SendAnswer(c, answer) ==
    /\ c \in connected_clients
    /\ Apply(handle_answer(State, c, answer))

IceCandidate(c, candidate) ==
    /\ c \in connected_clients
    /\ Apply(handle_ice_candidate(State, c, candidate))

\* Peer signaling among joins, leaves, valid identifications and disconnects.
SignalNext ==
    \/ Connect
    \/ \E c \in Clients, space \in EnabledSpaces :
          /\ steps < MaxSignalSteps
          /\ Changes(join_space(State, c, space).st)
          /\ JoinSpace(c, space)
    \/ \E c \in Clients :
          /\ steps < MaxSignalSteps
          /\ Changes(leave_space(State, c))
          /\ LeaveSpace(c)
    \/ \E c \in Clients, d \in {x \in IdentifyInputs : ValidIdentify(x)} :
          /\ steps < MaxSignalSteps
          /\ Changes(handle_robot_identify(State, c, d.robot_id, d.robot_name, d.space, d.secret_key))
          /\ RobotIdentify(c, d)
    \/ \E c \in Clients, offer \in OfferInputs :
          steps < MaxSignalSteps /\ SendOffer(c, offer)
    \/ \E c \in Clients, answer \in AnswerInputs :
          steps < MaxSignalSteps /\ SendAnswer(c, answer)
    \/ \E c \in Clients, candidate \in CandidateInputs :
          steps < MaxSignalSteps /\ IceCandidate(c, candidate)
    \/ \E c \in Clients : steps < MaxSignalSteps /\ Disconnect(c)

SignalSpec == Init /\ [][SignalNext]_vars

\* The same lease traffic with the outstanding requesters kept as history.
\* a control_request is accepted when its sender is granted control or is told
\* its position in the queue
Accepted(S, c) ==
    \E m \in Range(S.sent) : m.to = c /\ m.type \in {"control_granted", "control_pending"}

\* clients whose request ends with a control_release sent by c: c itself, and
\* the controller that a robot c releases
ReleasedBy(S, c) ==
    IF is_robot(S, c) THEN {c, get_robot_controller(S, c)} ELSE {c}

\* clients whose request ends with the disconnect of c: c itself, and the
\* controller and the waiters that a robot c leaves behind
EndedBy(S, c) ==
    IF is_robot(S, c)
    THEN {c, get_robot_controller(S, c)} \cup Range(queue_of(S, get_robot_info(S, c).space))
    ELSE {c}

ApplyTracked(S, R) ==
    /\ steps' = steps + 1
    /\ last'  = Outcome(S)
    /\ Install(S)
    /\ requesters' = R
    /\ UNCHANGED <<next_id, endings, tasks, emitted>>

TrackedControlRequest(c) ==
    /\ c \in connected_clients
    /\ LET S == handle_control_request(State, c)
       IN  ApplyTracked(S, IF Accepted(S, c) THEN requesters \cup {c} ELSE requesters)

TrackedControlRelease(c) ==
    /\ c \in connected_clients
    /\ ApplyTracked(handle_control_release(State, c), requesters \ ReleasedBy(State, c))

TrackedDisconnect(c) ==
    /\ c \in connected_clients
    /\ ApplyTracked(handle_disconnect(State, c), requesters \ EndedBy(State, c))

ConserveNext ==
    \/ Connect
    \/ \E c \in Clients, space \in QueueSpaces :
          /\ steps < MaxConserveSteps
          /\ Changes(join_space(State, c, space).st)
          /\ JoinSpace(c, space)
    \/ \E c \in Clients, d \in {x \in IdentifyInputs : ValidIdentify(x) /\ x.space \in QueueSpaces} :
          /\ steps < MaxConserveSteps
          /\ Changes(handle_robot_identify(State, c, d.robot_id, d.robot_name, d.space, d.secret_key))
          /\ RobotIdentify(c, d)
    \/ \E c \in Clients :
          /\ steps < MaxConserveSteps
          /\ Changes(handle_control_request(State, c))
          /\ TrackedControlRequest(c)
    \/ \E c \in Clients :
          /\ steps < MaxConserveSteps
          /\ Changes(handle_control_release(State, c))
          /\ TrackedControlRelease(c)
    \/ \E c \in Clients : steps < MaxConserveSteps /\ TrackedDisconnect(c)

ConserveSpec == Init /\ [][ConserveNext]_vars

----------------------------------------------------------------------------
(* Handlers as tasks suspended at their outbound sends                      *)

\* Run(S, c, t) executes the handler of connection c from the point t.pc up
\* to its next outbound send, or to its end; it returns [st, task].
RECURSIVE Run(_, _, _)

\* await send_to_client: the task is suspended with the message pending; a
\* target without websocket is skipped and the handler goes on
SendThen(S, c, t, to, type, text, ref, nextpc) ==
    IF get_websocket(S, to)
    THEN [st |-> S, task |-> [t EXCEPT !.pc = nextpc, !.pending = Msg(to, type, text, ref)]]
    ELSE Run(S, c, [t EXCEPT !.pc = nextpc])

\* handle_control_release up to the control_released send
seg_release(S, c, t) ==
    IF is_robot(S, c)
    THEN
      LET controller_id == get_robot_controller(S, c)
          space_id      == get_robot_info(S, c).space
          t1 == [t EXCEPT !.robot = c, !.space = space_id, !.ret = "done"]
          nextpc == IF space_id # "" THEN "grant_next" ELSE "done"
      IN  IF controller_id # NoClient
          THEN SendThen(set_robot_controller(S, c, NoClient), c, t1,
                        controller_id, "control_released", "", c, nextpc)
          ELSE Run(S, c, [t1 EXCEPT !.pc = nextpc])
    ELSE
      LET S1       == _remove_queued_controller(S, c)
          robot_id == find_robot_by_controller(S1, c)
      IN  IF robot_id = NoClient THEN Run(S1, c, [t EXCEPT !.pc = "done"])
          ELSE
            LET space_id == get_robot_info(S1, robot_id).space
                t1 == [t EXCEPT !.robot = robot_id, !.space = space_id, !.ret = "done"]
            IN  SendThen(set_robot_controller(S1, robot_id, NoClient), c, t1,
                         robot_id, "control_released", "", c,
                         IF space_id # "" THEN "grant_next" ELSE "done")

\* _grant_next_controller up to the control_granted send of _grant_control
seg_grant_next(S, c, t) ==
    IF ~has_queue(S, t.space) THEN Run(S, c, [t EXCEPT !.pc = t.ret])
    ELSE
      LET q == queue_of(S, t.space)
      IN  IF Len(q) = 0 THEN Run(pop_queue(S, t.space), c, [t EXCEPT !.pc = t.ret])
          ELSE
            LET live == {i \in 1..Len(q) : get_websocket(S, q[i])}
            IN  IF live = {}
                THEN Run(pop_queue(S, t.space), c, [t EXCEPT !.pc = t.ret])
                ELSE
                  LET k  == Min(live)
                      S1 == set_queue(S, t.space, SubSeq(q, k + 1, Len(q)))
                      S2 == register_human(set_robot_controller(S1, t.robot, q[k]), q[k])
                  IN  [st   |-> S2,
                       task |-> [t EXCEPT !.pc = "grant_sent",
                                          !.pending = Msg(q[k], "control_granted", "", t.robot),
                                          !.attached = TRUE,
                                          !.replaced = get_robot_controller(S1, t.robot)]]

\* _grant_next_controller after the grant: the local queue, if empty, has its
\* key removed from control_queues, whatever deque the key holds by now
seg_grant_sent(S, c, t) ==
    LET empty == IF t.attached THEN queue_of(S, t.space) = <<>> ELSE t.local_empty
        t1    == [t EXCEPT !.pc = t.ret, !.replaced = NoClient,
                           !.dropped = empty /\ ~t.attached /\ queue_of(S, t.space) # <<>>]
    IN  Run(IF empty THEN pop_queue(S, t.space) ELSE S, c, t1)

\* handle_robot_disconnect up to the control_released send to the controller
seg_robot_disconnect(S, c, t) ==
    IF ~is_robot(S, c) THEN Run(S, c, [t EXCEPT !.pc = "human_disconnect"])
    ELSE
      LET space_id      == get_robot_info(S, c).space
          controller_id == get_robot_info(S, c).controlled_by
          t1 == [t EXCEPT !.robot = c, !.space = space_id]
      IN  IF controller_id # NoClient
          THEN SendThen(set_robot_controller(S, c, NoClient), c, t1, controller_id,
                        "control_released", "Robot disconnected", c, "rd_pop")
          ELSE Run(S, c, [t1 EXCEPT !.pc = "rd_pop"])

\* handle_robot_disconnect: the queue of the space is taken out of control_queues
seg_rd_pop(S, c, t) ==
    IF t.space = "" THEN Run(S, c, [t EXCEPT !.pc = "rd_notify", !.waiters = <<>>])
    ELSE Run(pop_queue(S, t.space), c,
             [t EXCEPT !.pc = "rd_notify", !.waiters = queue_of(S, t.space),
                       !.dropped = queue_of(S, t.space) # <<>>])

\* handle_robot_disconnect: one turn of the loop over the waiters
seg_rd_notify(S, c, t) ==
    IF t.waiters = <<>> THEN Run(S, c, [t EXCEPT !.pc = "human_disconnect"])
    ELSE SendThen(S, c, [t EXCEPT !.waiters = Tail(t.waiters)], Head(t.waiters),
                  "control_released", "Robot disconnected", c, "rd_notify")

\* handle_human_disconnect up to the control_released send to the robot
seg_human_disconnect(S, c, t) ==
    IF ~is_human(S, c) THEN Run(S, c, [t EXCEPT !.pc = "leave"])
    ELSE
      LET S1       == _remove_queued_controller(S, c)
          robot_id == find_robot_by_controller(S1, c)
      IN  IF robot_id = NoClient THEN Run(S1, c, [t EXCEPT !.pc = "leave"])
          ELSE
            LET space_id == get_robot_info(S1, robot_id).space
                t1 == [t EXCEPT !.robot = robot_id, !.space = space_id, !.ret = "leave"]
            IN  SendThen(set_robot_controller(S1, robot_id, NoClient), c, t1, robot_id,
                         "control_released", "Controller disconnected", c,
                         IF space_id # "" THEN "grant_next" ELSE "leave")

\* what follows leave_space: the rest of the cascade, or the end of the handler
AfterLeave(t) ==
    IF t.closing THEN "cleanup" ELSE "done"

\* leave_space up to the broadcast
seg_leave(S, c, t) ==
    LET space_name == get_client_space(S, c)
    IN  IF space_name = "" THEN Run(S, c, [t EXCEPT !.pc = AfterLeave(t)])
        ELSE IF space_name \notin DOMAIN S.active_spaces
        THEN Run(set_client_space(S, c, ""), c, [t EXCEPT !.pc = AfterLeave(t)])
        ELSE
          LET S1 == [S EXCEPT !.active_spaces[space_name] = @ \ {c}]
          IN  Run(S1, c, [t EXCEPT !.pc = "leave_notify", !.space = space_name,
                                   !.waiters = SortedSeq(S1.active_spaces[space_name]),
                                   !.iterating = S1.active_spaces[space_name],
                                   !.attached = TRUE])

\* an exception leaves the handler: raised by a message handler it ends the
\* receive loop, whose except clause runs the disconnect cascade; raised by the
\* cascade it leaves the endpoint, whose finally clause drops the socket
Raise(S, c, t) ==
    IF t.closing
    THEN [st |-> remove_connection(S, c), task |-> [Idle EXCEPT !.raised = TRUE]]
    ELSE Run(S, c, [Idle EXCEPT !.pc = "robot_disconnect", !.closing = TRUE, !.raised = TRUE])

\* the set iterator's next(): RuntimeError when the set has changed size since
\* the loop started (the set emptied and deleted by another handler included)
SetChangedSize(S, t) ==
    \/ ~t.attached
    \/ Cardinality(get_space_participants(S, t.space)) # Cardinality(t.iterating)

\* leave_space: one turn of the broadcast loop, then the end of leave_space
seg_leave_notify(S, c, t) ==
    IF SetChangedSize(S, t) THEN Raise(S, c, t)
    ELSE IF t.waiters # <<>>
    THEN SendThen(S, c, [t EXCEPT !.waiters = Tail(t.waiters)], Head(t.waiters),
                  "user_left", "", c, "leave_notify")
    ELSE
      LET S1 == IF S.active_spaces[t.space] = {}
                THEN [S EXCEPT !.active_spaces = DropKey(@, t.space)]
                ELSE S
      IN  Run(set_client_space(S1, c, ""), c, [t EXCEPT !.pc = AfterLeave(t)])

\* the end of the cascade: cleanup_client, then the socket is dropped
seg_cleanup(S, c, t) ==
    Run(remove_connection(cleanup_client(S, c), c), c, [t EXCEPT !.pc = "done"])

Run(S, c, t) ==
    CASE t.pc = "release"          -> seg_release(S, c, t)
      [] t.pc = "grant_next"       -> seg_grant_next(S, c, t)
      [] t.pc = "grant_sent"       -> seg_grant_sent(S, c, t)
      [] t.pc = "robot_disconnect" -> seg_robot_disconnect(S, c, t)
      [] t.pc = "rd_pop"           -> seg_rd_pop(S, c, t)
      [] t.pc = "rd_notify"        -> seg_rd_notify(S, c, t)
      [] t.pc = "human_disconnect" -> seg_human_disconnect(S, c, t)
      [] t.pc = "leave"            -> seg_leave(S, c, t)
      [] t.pc = "leave_notify"     -> seg_leave_notify(S, c, t)
      [] t.pc = "cleanup"          -> seg_cleanup(S, c, t)
      [] OTHER                     -> [st |-> S, task |-> [Idle EXCEPT !.dropped = t.dropped,
                                                                       !.raised = t.raised]]

\* a handler whose only send is its last statement: everything but the send
\* is done, the send is pending
LastSend(S) ==
    [st   |-> Then(S),
     task |-> IF S.sent = <<>> THEN Idle
              ELSE [Idle EXCEPT !.pc = "done", !.pending = S.sent[Len(S.sent)]]]

\* a task suspended in _grant_control keeps a reference to the deque it has
\* popped from; when another step takes that deque out of control_queues the
\* task is left with the deque as it was then
Detach(S, c, dropped) ==
    [x \in Clients |->
        IF /\ x # c
           /\ tasks[x].pc = "grant_sent"
           /\ tasks[x].attached
           /\ has_queue(State, tasks[x].space)
           /\ ~has_queue(S, tasks[x].space)
        THEN [tasks[x] EXCEPT !.attached = FALSE, !.local_empty = ~dropped]
        ELSE IF /\ x # c
                /\ tasks[x].pc = "leave_notify"
                /\ tasks[x].space \in DOMAIN active_spaces
                /\ tasks[x].space \notin DOMAIN S.active_spaces
        THEN [tasks[x] EXCEPT !.attached = FALSE]
        ELSE tasks[x]]

\* spaces whose member set a suspended broadcast is iterating over
Broadcasting == {tasks[x].space : x \in {y \in Clients : tasks[y].pc = "leave_notify"}}

GrantsIn(S) ==
    {[to |-> m.to, robot |-> m.ref] : m \in {x \in Range(S.sent) : x.type = "control_granted"}}

\* a step of connection c's task: the registries it leaves and the task it becomes
TaskStep(R, c) ==
    /\ last'    = Outcome(R.st)
    /\ Install(R.st)
    /\ tasks'   = [Detach(R.st, c, R.task.dropped) EXCEPT ![c] = [R.task EXCEPT !.dropped = FALSE]]
    /\ emitted' = emitted \cup GrantsIn(R.st)
    /\ UNCHANGED <<next_id, requesters, endings>>

\* the same step where no broadcast is disturbed: the member set of a space
\* under broadcast is left as it is
RaceApply(R, c) ==
    /\ \A space \in Broadcasting :
          get_space_participants(R.st, space) = get_space_participants(State, space)
    /\ TaskStep(R, c)

\* a frame of connection c is read: its handler starts
Ready(c) == c \in connected_clients /\ tasks[c].pc = "idle"

Atomic(S) == [st |-> S, task |-> Idle]

RaceJoinSpace(c, space) ==
    /\ Ready(c)
    /\ steps' = steps + 1
    /\ RaceApply(Atomic(join_space(State, c, space).st), c)

\* handle_robot_identify: validation, registration, join and the robot_joined
\* broadcast without preemption, then the promotion of a waiter as a task
seg_identify(S, c, d) ==
    IF ErrorOf(handle_robot_identify(S, c, d.robot_id, d.robot_name, d.space, d.secret_key)) # ""
    THEN Atomic(handle_robot_identify(S, c, d.robot_id, d.robot_name, d.space, d.secret_key))
    ELSE
      LET S1 == register_robot(S, c, d.robot_id, d.space)
          S2 == send_message(join_space(S1, c, d.space).st, c, "joined_space", d.space, c)
          S3 == broadcast_to_space(S2, d.space, "robot_joined", "", c, c)
      IN  IF get_robot_controller(S3, c) = NoClient
          THEN Run(S3, c, [Idle EXCEPT !.pc = "grant_next", !.robot = c, !.space = d.space])
          ELSE Atomic(S3)

RaceRobotIdentify(c, d) ==
    /\ Ready(c)
    /\ steps' = steps + 1
    /\ RaceApply(seg_identify(State, c, d), c)

RaceControlRequest(c) ==
    /\ Ready(c)
    /\ steps' = steps + 1
    /\ RaceApply(LastSend(handle_control_request(State, c)), c)

RaceSetAngles(c, robot_id, angles) ==
    /\ Ready(c)
    /\ steps' = steps + 1
    /\ RaceApply(LastSend(handle_set_angles(State, c, robot_id, angles)), c)

RaceControlRelease(c) ==
    /\ Ready(c)
    /\ steps' = steps + 1
    /\ RaceApply(Run(State, c, [Idle EXCEPT !.pc = "release"]), c)

\* the read side of connection c ends: its disconnect cascade starts
RaceDisconnect(c) ==
    /\ Ready(c)
    /\ steps' = steps + 1
    /\ RaceApply(Run(State, c, [Idle EXCEPT !.pc = "robot_disconnect", !.closing = TRUE]), c)

\* the send a task is suspended at completes and the handler goes on
Resume(c) ==
    /\ tasks[c].pc # "idle"
    /\ steps' = steps
    /\ RaceApply(Run(send_message(State, tasks[c].pending.to, tasks[c].pending.type,
                                  tasks[c].pending.text, tasks[c].pending.ref),
                     c, tasks[c]), c)

\* One robot and its human requesters: a client identifies as robot, and is
\* accepted, while no profile is registered, and the clients that join the space, request
\* control and send commands hold no robot profile.  join_space, and
\* robot_identify up to its promotion, are taken without preemption; nothing
\* is read from a connection while its handler is suspended.
RaceNext ==
    \/ Connect
    \/ \E c \in Clients, space \in QueueSpaces :
          /\ steps < MaxRaceSteps
          /\ ~is_robot(State, c)
          /\ Changes(join_space(State, c, space).st)
          /\ RaceJoinSpace(c, space)
    \/ \E c \in Clients, d \in {x \in IdentifyInputs : ValidIdentify(x) /\ x.space \in QueueSpaces} :
          /\ steps < MaxRaceSteps
          /\ robot_clients = <<>>
          /\ ErrorOf(handle_robot_identify(State, c, d.robot_id, d.robot_name, d.space, d.secret_key)) = ""
          /\ RaceRobotIdentify(c, d)
    \/ \E c \in Clients :
          /\ steps < MaxRaceSteps
          /\ ~is_robot(State, c)
          /\ Changes(handle_control_request(State, c))
          /\ RaceControlRequest(c)
    \/ \E c \in Clients :
          /\ steps < MaxRaceSteps
          /\ Changes(handle_control_release(State, c))
          /\ RaceControlRelease(c)
    \/ \E c \in Clients, robot_id \in Clients :
          /\ steps < MaxRaceSteps
          /\ get_robot_controller(State, robot_id) = c
          /\ RaceSetAngles(c, robot_id, "pan-tilt")
    \/ \E c \in Clients : steps < MaxRaceSteps /\ RaceDisconnect(c)
    \/ \E c \in Clients : Resume(c)

RaceSpec == Init /\ [][RaceNext]_vars

----------------------------------------------------------------------------
(* Members leaving a space while a user_left broadcast over it is          *)
(* suspended: the steps of RaceSpec without its restriction on the member  *)
(* sets.                                                                   *)

BroadcastJoinSpace(c, space) ==
    /\ Ready(c)
    /\ steps' = steps + 1
    /\ TaskStep(Atomic(join_space(State, c, space).st), c)

\* a leave_space frame of connection c is read
BroadcastLeaveSpace(c) ==
    /\ Ready(c)
    /\ steps' = steps + 1
    /\ TaskStep(Run(State, c, [Idle EXCEPT !.pc = "leave"]), c)

BroadcastDisconnect(c) ==
    /\ Ready(c)
    /\ steps' = steps + 1
    /\ TaskStep(Run(State, c, [Idle EXCEPT !.pc = "robot_disconnect", !.closing = TRUE]), c)

BroadcastResume(c) ==
    /\ tasks[c].pc # "idle"
    /\ steps' = steps
    /\ TaskStep(Run(send_message(State, tasks[c].pending.to, tasks[c].pending.type,
                                 tasks[c].pending.text, tasks[c].pending.ref),
                    c, tasks[c]), c)

\* Humans joining and leaving: join_space is taken without preemption and
\* while no broadcast runs over the space joined, so that the member set under
\* a suspended broadcast changes by members leaving only.
BroadcastNext ==
    \/ Connect
    \/ \E c \in Clients, space \in QueueSpaces :
          /\ steps < MaxBroadcastSteps
          /\ space \notin Broadcasting
          /\ Changes(join_space(State, c, space).st)
          /\ BroadcastJoinSpace(c, space)
    \/ \E c \in Clients :
          /\ steps < MaxBroadcastSteps
          /\ get_client_space(State, c) # ""
          /\ BroadcastLeaveSpace(c)
    \/ \E c \in Clients : steps < MaxBroadcastSteps /\ BroadcastDisconnect(c)
    \/ \E c \in Clients : BroadcastResume(c)

BroadcastSpec == Init /\ [][BroadcastNext]_vars

----------------------------------------------------------------------------
(* public_server: the module-level handlers of the server entry point,     *)
(* working on the same registries (it keeps no control queues).            *)

\* secret a robot presents for a space
robot_secret_key == [s \in CatalogIds |-> IF s = "beta" THEN "k2" ELSE "k1"]

PublicIdentifyInputs ==
    {[robot_name |-> "Portalbot", space |-> "alpha",   secret_key |-> "k1"],
     [robot_name |-> "Portalbot", space |-> "beta",    secret_key |-> "k2"],
     [robot_name |-> "Portalbot", space |-> "gamma",   secret_key |-> "k1"],
     [robot_name |-> "Portalbot", space |-> "alpha",   secret_key |-> "k2"],
     [robot_name |-> "Portalbot", space |-> "nowhere", secret_key |-> "k1"],
     [robot_name |-> "",          space |-> "alpha",   secret_key |-> "k1"]}

\* client ids a payload may name: none, or any id ever handed out
PeerInputs == {NoClient} \cup Clients

public_handle_join_space(S, c, space) ==
    IF space = ""
    THEN send_message(S, c, "error", "space id is required", NoClient)
    ELSE IF ~get_space_by_id(space)
    THEN send_message(S, c, "error", "space does not exist", NoClient)
    ELSE IF ~Catalog[space].enabled
    THEN send_message(S, c, "error", "space unavailable", NoClient)
    ELSE
      LET S1 == IF space \in DOMAIN S.active_spaces THEN S
                ELSE [S EXCEPT !.active_spaces = PutKey(@, space, {})]
      IN  IF Cardinality(S1.active_spaces[space]) >= Catalog[space].max_participants
          THEN send_message(S1, c, "error", "space is full", NoClient)
          ELSE
            LET S2 == [S1 EXCEPT !.active_spaces[space] = @ \cup {c},
                                 !.client_spaces = PutKey(@, c, space)]
                is_initiator == Cardinality(S2.active_spaces[space]) = 1
                S3 == send_message(S2, c, "joined_space", space, NoClient)
            IN  IF is_initiator THEN S3
                ELSE broadcast_to_space(S3, space, "user_joined", "", c, c)

public_handle_leave_space(S, c) ==
    LET space_name == get_client_space(S, c)
    IN  IF space_name = "" THEN S
        ELSE
          LET S1 == IF space_name \in DOMAIN S.active_spaces
                    THEN LET A1 == [S EXCEPT !.active_spaces[space_name] = @ \ {c}]
                             A2 == broadcast_to_space(A1, space_name, "user_left", "", c, c)
                         IN  IF A2.active_spaces[space_name] = {}
                             THEN [A2 EXCEPT !.active_spaces = DropKey(@, space_name)]
                             ELSE A2
                    ELSE S
          IN  [S1 EXCEPT !.client_spaces = PutKey(@, c, "")]

public_handle_robot_identify(S, c, robot_name, space_id, secret_key) ==
    IF robot_name = "" \/ space_id = "" \/ secret_key = ""
    THEN send_message(S, c, "error", "identification requires all fields", NoClient)
    ELSE IF ~get_space_by_id(space_id)
    THEN send_message(S, c, "error", "space does not exist", NoClient)
    ELSE IF robot_secret_key[space_id] # secret_key
    THEN send_message(S, c, "error", "invalid robot secret key", NoClient)
    ELSE
      LET S1 == register_robot(S, c, "", space_id)
          S2 == IF space_id \in DOMAIN S1.active_spaces THEN S1
                ELSE [S1 EXCEPT !.active_spaces = PutKey(@, space_id, {})]
          S3 == [S2 EXCEPT !.active_spaces[space_id] = @ \cup {c},
                           !.client_spaces = PutKey(@, c, space_id)]
          S4 == send_message(S3, c, "joined_space", space_id, NoClient)
      IN  broadcast_to_space(S4, space_id, "robot_joined", "", c, c)

public_handle_control_request(S, c, robot_id) ==
    IF robot_id = NoClient \/ ~is_robot(S, robot_id)
    THEN send_message(S, c, "error", "invalid robot_id", NoClient)
    ELSE IF get_robot_info(S, robot_id).controlled_by # NoClient
    THEN send_message(S, c, "error", "robot is already being controlled", NoClient)
    ELSE send_to_client(register_human(S, c), robot_id, "control_request", "", c)

public_handle_control_granted(S, c, controller_id) ==
    IF ~is_robot(S, c)
    THEN send_message(S, c, "error", "only robots can grant control", NoClient)
    ELSE IF controller_id = NoClient \/ ~get_websocket(S, controller_id)
    THEN send_message(S, c, "error", "invalid controller_id", NoClient)
    ELSE
      LET S1 == set_robot_controller(S, c, controller_id)
          S2 == register_human(S1, controller_id)
      IN  send_to_client(S2, controller_id, "control_granted", "", c)

public_handle_control_release(S, c) ==
    IF is_robot(S, c)
    THEN LET controller_id == get_robot_info(S, c).controlled_by
         IN  IF controller_id # NoClient
             THEN send_to_client(set_robot_controller(S, c, NoClient),
                                 controller_id, "control_released", "", c)
             ELSE S
    ELSE LET robot_id == find_robot_by_controller(S, c)
         IN  IF robot_id # NoClient
             THEN send_to_client(set_robot_controller(S, robot_id, NoClient),
                                 robot_id, "control_released", "", c)
             ELSE S

\* every robot the client controls is released, in dict order
RECURSIVE ReleaseAll(_, _, _)
ReleaseAll(S, c, i) ==
    IF i > Len(S.robot_clients) THEN S
    ELSE IF S.robot_clients[i].controlled_by = c
    THEN ReleaseAll(send_to_client([S EXCEPT !.robot_clients[i].controlled_by = NoClient],
                                   S.robot_clients[i].cid, "control_released",
                                   "Controller disconnected", c),
                    c, i + 1)
    ELSE ReleaseAll(S, c, i + 1)

public_handle_disconnect(S, c) ==
    LET S1 == IF is_robot(S, c)
              THEN LET controller_id == get_robot_info(S, c).controlled_by
                       N == IF controller_id # NoClient
                            THEN send_to_client(S, controller_id, "control_released",
                                                "Robot disconnected", c)
                            ELSE S
                   IN  [N EXCEPT !.robot_clients = SelectSeq(@, LAMBDA e : e.cid # c)]
              ELSE S
        S2 == IF c \in S1.human_clients
              THEN [ReleaseAll(S1, c, 1) EXCEPT !.human_clients = @ \ {c}]
              ELSE S1
        space_name == get_client_space(S2, c)
        S3 == IF space_name # "" /\ space_name \in DOMAIN S2.active_spaces
              THEN LET A1 == [S2 EXCEPT !.active_spaces[space_name] = @ \ {c}]
                       A2 == broadcast_to_space(A1, space_name, "user_left", "", c, c)
                   IN  IF A2.active_spaces[space_name] = {}
                       THEN [A2 EXCEPT !.active_spaces = DropKey(@, space_name)]
                       ELSE A2
              ELSE S2
    IN  [S3 EXCEPT !.client_spaces     = DropKey(@, c),
                   !.client_websockets = @ \ {c}]

\* the endpoint's exception path: handle_disconnect, then the socket leaves connected_clients
websocket_closed(S, c) == remove_connection(public_handle_disconnect(S, c), c)

PublicJoinSpace(c, space) ==
    /\ c \in connected_clients
    /\ Apply(public_handle_join_space(State, c, space))

PublicLeaveSpace(c) ==
    /\ c \in connected_clients
    /\ Apply(public_handle_leave_space(State, c))

PublicRobotIdentify(c, d) ==
    /\ c \in connected_clients
    /\ Apply(public_handle_robot_identify(State, c, d.robot_name, d.space, d.secret_key))

PublicControlRequest(c, robot_id) ==
    /\ c \in connected_clients
    /\ Apply(public_handle_control_request(State, c, robot_id))

PublicControlGranted(c, controller_id) ==
    /\ c \in connected_clients
    /\ Apply(public_handle_control_granted(State, c, controller_id))

PublicControlRelease(c) ==
    /\ c \in connected_clients
    /\ Apply(public_handle_control_release(State, c))

PublicDisconnect(c) ==
    /\ c \in connected_clients
    /\ Apply(websocket_closed(State, c))

PublicNext ==
    \/ Connect
    \/ \E c \in Clients, space \in SpaceInputs \cup {""} :
          steps < MaxSteps /\ PublicJoinSpace(c, space)
    \/ \E c \in Clients : steps < MaxSteps /\ PublicLeaveSpace(c)
    \/ \E c \in Clients, d \in PublicIdentifyInputs :
          steps < MaxSteps /\ PublicRobotIdentify(c, d)
    \/ \E c \in Clients, robot_id \in PeerInputs :
          steps < MaxSteps /\ PublicControlRequest(c, robot_id)
    \/ \E c \in Clients, controller_id \in PeerInputs :
          steps < MaxSteps /\ PublicControlGranted(c, controller_id)
    \/ \E c \in Clients : steps < MaxSteps /\ PublicControlRelease(c)
    \/ \E c \in Clients : steps < MaxSteps /\ PublicDisconnect(c)

PublicSpec == Init /\ [][PublicNext]_vars

----------------------------------------------------------------------------
(* public_server: the receive loop of websocket_endpoint                    *)

public_handle_forward(S, c, type, body) ==
    LET space_name == get_client_space(S, c)
    IN  IF space_name = "" \/ body = "" THEN S
        ELSE broadcast_to_space(S, space_name, type, body, c, c)

public_handle_ping(S, c) == send_message(S, c, "pong", "", NoClient)

public_handle_remote_command(S, c, robot_id, command) ==
    IF robot_id = NoClient \/ ~is_robot(S, robot_id)
    THEN send_message(S, c, "error", "invalid robot_id", NoClient)
    ELSE IF get_robot_controller(S, robot_id) # c
    THEN send_message(S, c, "error", "you do not control this robot", NoClient)
    ELSE send_to_client(S, robot_id, "remote_command", command, NoClient)

\* A text frame.  json: "invalid" (not JSON), "not_object" (JSON, but an array,
\* a string, a number or null) or "object"; data_ok: the "data" member, when
\* present, is an object; the other fields are the members of data.
Frame(json, type, data_ok, space, secret_key, peer, body) ==
    [json |-> json, type |-> type, data_ok |-> data_ok, space |-> space,
     robot_name |-> "Portalbot", secret_key |-> secret_key, peer |-> peer, body |-> body]

FrameInputs ==
    {Frame("invalid", "", TRUE, "", "", NoClient, ""),
     Frame("not_object", "", TRUE, "", "", NoClient, ""),
     Frame("object", "no_such_type", TRUE, "", "", NoClient, ""),
     Frame("object", "join_space", FALSE, "", "", NoClient, ""),
     Frame("object", "join_space", TRUE, "beta", "", NoClient, ""),
     Frame("object", "join_space", TRUE, "gamma", "", NoClient, ""),
     Frame("object", "leave_space", TRUE, "", "", NoClient, ""),
     Frame("object", "offer", TRUE, "", "", NoClient, "sdp"),
     Frame("object", "answer", TRUE, "", "", NoClient, "sdp"),
     Frame("object", "ice_candidate", TRUE, "", "", NoClient, ""),
     Frame("object", "ping", FALSE, "", "", NoClient, ""),
     Frame("object", "robot_identify", TRUE, "beta", "k2", NoClient, ""),
     Frame("object", "robot_identify", TRUE, "beta", "k1", NoClient, ""),
     Frame("object", "control_release", TRUE, "", "", NoClient, "")}
    \cup {Frame("object", type, TRUE, "", "", peer, "go") :
             type \in {"control_request", "control_granted", "remote_command"},
             peer \in PeerInputs}

\* handlers that read a member of data first thing
ReadsData ==
    {"join_space", "offer", "answer", "ice_candidate", "robot_identify",
     "control_request", "control_granted", "remote_command"}

\* returns [st, raised]: message.get fails on a message that is no object, and
\* data.get on a data member that is no object
handle_message(S, c, message) ==
    IF message.json = "not_object" THEN [st |-> S, raised |-> TRUE]
    ELSE IF message.type \in ReadsData /\ ~message.data_ok THEN [st |-> S, raised |-> TRUE]
    ELSE
      [raised |-> FALSE,
       st |->
         CASE message.type = "join_space"      -> public_handle_join_space(S, c, message.space)
           [] message.type = "leave_space"     -> public_handle_leave_space(S, c)
           [] message.type \in {"offer", "answer", "ice_candidate"}
                                               -> public_handle_forward(S, c, message.type, message.body)
           [] message.type = "ping"            -> public_handle_ping(S, c)
           [] message.type = "robot_identify"  ->
                  public_handle_robot_identify(S, c, message.robot_name, message.space,
                                               message.secret_key)
           [] message.type = "control_request" -> public_handle_control_request(S, c, message.peer)
           [] message.type = "control_granted" -> public_handle_control_granted(S, c, message.peer)
           [] message.type = "control_release" -> public_handle_control_release(S, c)
           [] message.type = "remote_command"  ->
                  public_handle_remote_command(S, c, message.peer, message.body)
           [] OTHER                            -> S]

\* what the receive loop meets next: a text frame, or the end of the read side
ReadInputs == FrameInputs \cup {Frame("eof", "", TRUE, "", "", NoClient, "")}

\* variant of websocket_endpoint that runs the cascade only when the read side ends
websocket_endpoint_eof_only(S, c, read) ==
    LET finally(T) == remove_connection(T, c)
    IN  IF read.json = "eof"
        THEN [st |-> finally(public_handle_disconnect(S, c)), cascades |-> 1, cause |-> "eof"]
        ELSE IF read.json = "invalid"
        THEN [st |-> send_message(S, c, "error", "Invalid JSON", NoClient),
              cascades |-> 0, cause |-> ""]
        ELSE LET H == handle_message(S, c, read)
             IN  IF H.raised
                 THEN [st |-> finally(H.st), cascades |-> 0, cause |-> "frame"]
                 ELSE [st |-> H.st, cascades |-> 0, cause |-> ""]

\* one turn of the loop of websocket_endpoint, with the exits taken when it
\* raises; returns the registries, the number of cascades run and what ended
\* the loop ("" if it goes on)
websocket_endpoint(S, c, read) ==
    LET finally(T) == remove_connection(T, c)
    IN  IF read.json = "eof"
        THEN [st |-> finally(public_handle_disconnect(S, c)), cascades |-> 1, cause |-> "eof"]
        ELSE IF read.json = "invalid"
        THEN [st |-> send_message(S, c, "error", "Invalid JSON", NoClient),
              cascades |-> 0, cause |-> ""]
        ELSE LET H == handle_message(S, c, read)
             IN  IF H.raised
                 THEN [st |-> finally(public_handle_disconnect(H.st, c)),
                       cascades |-> 1, cause |-> "frame"]
                 ELSE [st |-> H.st, cascades |-> 0, cause |-> ""]

Receive(c, read) ==
    /\ c \in connected_clients
    /\ LET R == websocket_endpoint(State, c, read)
       IN  /\ steps' = steps + 1
           /\ last'  = Outcome(R.st)
           /\ Install(R.st)
           /\ endings' = [endings EXCEPT ![c] = [cascades |-> @.cascades + R.cascades,
                                                 cause    |-> R.cause]]
           /\ UNCHANGED <<next_id, requesters, tasks, emitted>>

EndpointNext ==
    \/ Connect
    \/ \E c \in Clients, read \in ReadInputs : steps < MaxEndpointSteps /\ Receive(c, read)

EndpointSpec == Init /\ [][EndpointNext]_vars

----------------------------------------------------------------------------
(* Vocabulary of the properties                                             *)

Profiles == Range(robot_clients)

Controllers == {e.controlled_by : e \in Profiles} \ {NoClient}

QueuedIn(space) == Range(queue_of(State, space))

AllQueued == UNION {Range(e.queue) : e \in Range(control_queues)}

AllMembers == UNION {active_spaces[s] : s \in DOMAIN active_spaces}

\* every place of the registries, the spaces and the arbiter where a client id can appear
InAnyIndex(c) ==
    \/ c \in connected_clients
    \/ c \in client_websockets
    \/ c \in DOMAIN client_spaces
    \/ c \in {e.cid : e \in Profiles}
    \/ c \in human_clients
    \/ c \in AllMembers
    \/ c \in AllQueued
    \/ c \in Controllers

----------------------------------------------------------------------------
(* C1: in every reachable state, for every space at most one connected      *)
(* client holds a robot profile bound to that space.                        *)
C1_OneRobotPerSpace ==
    \A s \in CatalogIds :
        Cardinality({e.cid : e \in {x \in Profiles : x.space = s /\ x.cid \in connected_clients}}) <= 1

(* C2: in every reachable state, no client id is at the same time an entry  *)
(* of a control queue and the controller of a robot.                        *)
C2_QueueControllerDisjoint == AllQueued \cap Controllers = {}

(* C3: in every reachable state, a client id appears in at most one control *)
(* queue system-wide and at most once in that queue.                        *)
C3_AtMostOneQueueEntry ==
    \A c \in Clients :
        Cardinality({<<i, j>> \in (1..Len(control_queues)) \X (1..MaxClients) :
                        j <= Len(control_queues[i].queue) /\ control_queues[i].queue[j] = c}) <= 1

(* C4: in every reachable state, each robot's controller pointer is none or *)
(* the id of a client that is still in the registry and registered human.   *)
C4_ControllerConnectedHuman ==
    \A e \in Profiles :
        e.controlled_by = NoClient
        \/ (e.controlled_by \in client_websockets /\ e.controlled_by \in human_clients)

(* C5: promotion is strictly FIFO: a client is never granted control of a    *)
(* robot of a space while another client, whose control_request for that    *)
(* space completed earlier, is still connected and still waiting there.     *)
NewGrant(b, s) ==
    \E i \in 1..Len(robot_clients') :
        /\ robot_clients'[i].space = s
        /\ robot_clients'[i].controlled_by = b
        /\ ~\E e \in Profiles : e.cid = robot_clients'[i].cid /\ e.controlled_by = b

ArrivedBefore(a, b, s) ==
    LET pa == [cid |-> a, space |-> s]
        pb == [cid |-> b, space |-> s]
    IN  /\ pa \in Range(arrival)
        /\ (pb \notin Range(arrival) \/ IndexOf(arrival, pa) < IndexOf(arrival, pb))

C6_DisconnectLeavesNoTrace ==
    [][\A c \in Clients : (Disconnect(c) \/ PublicDisconnect(c)) => ~InAnyIndex(c)']_vars

(* C7: the member count of every active space is at most max_participants;  *)
(* join_space into a space at capacity fails with "space is full" and       *)
(* changes nothing; join_space into an enabled space one below capacity     *)
(* succeeds and adds the client.                                            *)
AtCapacity(s) == Cardinality(get_space_participants(State, s)) = Catalog[s].max_participants

BelowCapacity(s) ==
    /\ Catalog[s].enabled
    /\ Cardinality(get_space_participants(State, s)) = Catalog[s].max_participants - 1

C8_FailedIdentifyChangesNothing ==
    [][\A c \in Clients, d \in IdentifyInputs :
          (last'.error # "" /\ RobotIdentify(c, d)) => UNCHANGED registries]_vars

(* C9: a client obtains a robot profile only through a robot_identify whose *)
(* space is in the catalog, whose robot id is in that space's authorized    *)
(* list and whose secret equals the stored secret of that robot id; any     *)
(* other robot_identify is answered with an error and grants no profile,    *)
(* and no other message grants one.                                         *)
IdentifyOutcome(c, d) == handle_robot_identify(State, c, d.robot_id, d.robot_name, d.space, d.secret_key)

InvalidInputs == {d \in IdentifyInputs : ~ValidIdentify(d)}

ProfilePairs(rc) == {<<e.cid, e.robot_id, e.space>> : e \in Range(rc)}

KeepsProfiles(S) == ProfilePairs(S.robot_clients) \subseteq ProfilePairs(robot_clients)

C9_ProfileOnlyByValidIdentify ==
    /\ \A e \in Profiles :
          /\ e.space \in CatalogIds
          /\ e.robot_id \in robot_ids[e.space]
          /\ e.robot_id \in DOMAIN secrets
    /\ \A c \in connected_clients :
          /\ \A d \in InvalidInputs :
                LET S == IdentifyOutcome(c, d)
                IN  ErrorOf(S) # "" /\ S.robot_clients = robot_clients
          /\ \A space \in SpaceInputs : KeepsProfiles(join_space(State, c, space).st)
          /\ KeepsProfiles(leave_space(State, c))
          /\ KeepsProfiles(handle_control_request(State, c))
          /\ KeepsProfiles(handle_control_granted(State, c))
          /\ KeepsProfiles(handle_control_release(State, c))
          /\ KeepsProfiles(handle_disconnect(State, c))

\* a client holds a profile and its robot_identify has just been accepted
C9_Witness ==
    /\ last.error = ""
    /\ robot_clients # <<>>
    /\ LET e == robot_clients[Len(robot_clients)]
       IN  /\ e.controlled_by = NoClient
           /\ e.robot_id \in DOMAIN secrets
           /\ e.robot_id \in robot_ids[e.space]
           /\ e.cid \in get_space_participants(State, e.space)

----------------------------------------------------------------------------
(* Vocabulary of the relay properties                                       *)

\* the messages of one type among those a handler has sent
OfType(S, type) == {m \in Range(S.sent) : m.type = type}

\* the handler has sent nothing but one error to the sender
OnlyErrorTo(S, c) ==
    /\ Len(S.sent) = 1
    /\ S.sent[1].type = "error"
    /\ S.sent[1].to = c

\* the robot profiles bound to the space the client is in
RobotsInSpaceOf(c) ==
    {e \in Profiles : get_client_space(State, c) # "" /\ e.space = get_client_space(State, c)}

\* humans in a space: members that hold no robot profile
HumansIn(space) ==
    {h \in get_space_participants(State, space) : h \notin {e.cid : e \in Profiles}}

(* C11: a control_offer is forwarded only when its sender is the current    *)
(* controller of the robot in the sender's space, and then to that robot    *)
(* only, with nothing sent to anyone else; a control_offer of any other     *)
(* member of a space with a robot is answered with an error to the sender   *)
(* and nothing is forwarded.                                                *)
C11_ControlOfferTargeted ==
    \A c \in connected_clients, offer \in OfferInputs :
        LET S == handle_control_offer(State, c, offer)
        IN  /\ OfType(S, "control_offer") # {} =>
                  \E e \in RobotsInSpaceOf(c) :
                      /\ e.controlled_by = c
                      /\ S.sent = <<Msg(e.cid, "control_offer", offer, c)>>
            /\ (/\ offer # ""
                /\ RobotsInSpaceOf(c) # {}
                /\ \A e \in RobotsInSpaceOf(c) : e.controlled_by # c) =>
                  OnlyErrorTo(S, c)
            /\ ~Changes(S)

\* an offer has just been relayed to a robot by its controller while another
\* human is a member of the robot's space
C11_Witness ==
    \E m \in last.relayed :
        /\ m.type = "control_offer"
        /\ \E e \in Profiles :
              /\ e.cid = m.to
              /\ e.controlled_by = m.ref
              /\ HumansIn(e.space) \ {m.ref} # {}
              /\ last.relayed = {m}

(* C12: a control_answer is forwarded only when its sender is a registered  *)
(* robot that has a controller, and then to that controller only; from a    *)
(* sender that is no robot it is refused with an error and not forwarded;   *)
(* from a robot without controller it is dropped; it is never handed to     *)
(* the other members of the space.                                          *)
C12_ControlAnswerTargeted ==
    \A c \in connected_clients, answer \in AnswerInputs :
        LET S == handle_control_answer(State, c, answer)
        IN  /\ OfType(S, "control_answer") # {} =>
                  \E e \in Profiles :
                      /\ e.cid = c
                      /\ e.controlled_by # NoClient
                      /\ S.sent = <<Msg(e.controlled_by, "control_answer", answer, c)>>
            /\ c \notin {e.cid : e \in Profiles} =>
                  /\ OfType(S, "control_answer") = {}
                  /\ (answer # "" /\ get_client_space(State, c) # "") => OnlyErrorTo(S, c)
            /\ (\E e \in Profiles : e.cid = c /\ e.controlled_by = NoClient) => S.sent = <<>>
            /\ ~Changes(S)

\* an answer has just been relayed by a robot to its controller while another
\* human is a member of the robot's space
C12_Witness ==
    \E m \in last.relayed :
        /\ m.type = "control_answer"
        /\ \E e \in Profiles :
              /\ e.cid = m.ref
              /\ e.controlled_by = m.to
              /\ HumansIn(e.space) \ {m.to} # {}
              /\ last.relayed = {m}

(* C13: set_angles is forwarded only if, when the message is handled, the   *)
(* sender is the current controller of the robot the message names and      *)
(* angles is present, and then to that robot only; otherwise the sender     *)
(* gets an error, nothing is forwarded and no state changes.                *)
C13_SetAnglesOnlyFromController ==
    \A c \in connected_clients, robot_id \in PeerInputs, angles \in AnglesInputs :
        LET S  == handle_set_angles(State, c, robot_id, angles)
            ok == /\ angles # ""
                  /\ \E e \in Profiles : e.cid = robot_id /\ e.controlled_by = c
        IN  /\ ok  => S.sent = <<Msg(robot_id, "set_angles", angles, NoClient)>>
            /\ ~ok => OnlyErrorTo(S, c)
            /\ ~Changes(S)

\* angles have just been forwarded to a robot that has a controller
C13_Witness ==
    \E m \in last.relayed :
        /\ m.type = "set_angles"
        /\ m.text # ""
        /\ get_robot_controller(State, m.to) \in connected_clients
        /\ last.error = ""

----------------------------------------------------------------------------
(* Vocabulary of the lease properties                                       *)

RobotIds == {e.cid : e \in Profiles}

\* c, no robot itself, holds the lease of the robot of profile e while a
\* connected client other than c is the head of the queue of e's space
ControllerWithWaiter(c, e) ==
    /\ c \notin RobotIds
    /\ e.controlled_by = c
    /\ queue_of(State, e.space) # <<>>
    /\ Head(queue_of(State, e.space)) \in client_websockets
    /\ Head(queue_of(State, e.space)) # c

\* the robot of profile e is granted to client h: h is told and the pointer names h
GrantedTo(S, e, h) ==
    /\ Msg(h, "control_granted", "", e.cid) \in Range(S.sent)
    /\ get_robot_controller(S, e.cid) = h

(* C14: when the controller H1 of robot R sends control_release while H2 is *)
(* the head of the queue of R's space, control_released {robot_id: R} is    *)
(* sent to H1, control_granted is sent to H2 and H2 becomes R's controller. *)
C14_ReleaseNotifiesReleaser ==
    \A c \in connected_clients, e \in Profiles :
        ControllerWithWaiter(c, e) =>
            LET S == handle_control_release(State, c)
            IN  /\ Msg(c, "control_released", "", e.cid) \in Range(S.sent)
                /\ GrantedTo(S, e, Head(queue_of(State, e.space)))

(* C14, amended: when the controller H1 of robot R (the robot the registry  *)
(* finds for H1) sends control_release while H2 is the head of the queue of *)
(* R's space, control_released {controller_id: H1} is sent to R and nothing *)
(* to H1, control_granted is sent to H2 and H2 becomes R's controller.      *)
C14_ReleaseNotifiesRobot ==
    \A c \in connected_clients, e \in Profiles :
        (ControllerWithWaiter(c, e) /\ find_robot_by_controller(State, c) = e.cid) =>
            LET S == handle_control_release(State, c)
            IN  /\ Msg(e.cid, "control_released", "", c) \in Range(S.sent)
                /\ \A m \in Range(S.sent) : m.to # c
                /\ GrantedTo(S, e, Head(queue_of(State, e.space)))
                /\ Head(queue_of(State, e.space)) \notin Range(queue_of(S, e.space))

\* a human has just released a robot and the robot went to the waiting human
C14_Witness ==
    \E m \in last.relayed :
        /\ m.type = "control_released"
        /\ m.text = ""
        /\ m.ref \in connected_clients \ RobotIds
        /\ last.granted \notin {NoClient, m.ref}
        /\ \E e \in Profiles : e.cid = m.to /\ e.controlled_by = last.granted

\* the waiters of a queue that are still connected, other than c, in queue order
LiveWaiters(space, c) ==
    SelectSeq(queue_of(State, space), LAMBDA h : h \in client_websockets /\ h # c)

(* C15: when the current controller of a robot disconnects, the lease is    *)
(* cleared, the robot is sent control_released {controller_id, reason:      *)
(* "Controller disconnected"}, and the first still-connected waiter of the  *)
(* queue of the robot's space, if any, is sent control_granted and becomes  *)
(* the controller; with no waiter the lease stays vacant.                   *)
C15_ControllerDisconnectPromotes ==
    \A c \in connected_clients, e \in Profiles :
        (e.controlled_by = c /\ c \notin RobotIds) =>
            LET S == handle_human_disconnect(State, c)
            IN  /\ get_robot_controller(S, e.cid) # c
                /\ Msg(e.cid, "control_released", "Controller disconnected", c) \in Range(S.sent)
                /\ IF LiveWaiters(e.space, c) = <<>>
                   THEN get_robot_controller(S, e.cid) = NoClient
                   ELSE GrantedTo(S, e, Head(LiveWaiters(e.space, c)))

\* the clients waiting in some queue of the registries S
QueuedClients(S) == UNION {Range(q.queue) : q \in Range(S.control_queues)}

(* C16: after the disconnect handling of a client that was waiting in a     *)
(* control queue, whether it was enqueued while a robot was bound to the    *)
(* space or while none was, the client is in no control queue, and a later  *)
(* release by the controller does not grant it control: with no other       *)
(* waiter the lease becomes vacant.                                         *)
C16_WaiterDisconnectDequeues ==
    \A c \in connected_clients :
        (c \in AllQueued /\ c \notin Controllers) =>
            LET S == cleanup_client(handle_human_disconnect(State, c), c)
            IN  /\ c \notin QueuedClients(S)
                /\ \A k \in S.client_websockets, e \in Range(S.robot_clients) :
                      (e.controlled_by = k /\ find_robot_by_controller(S, k) = e.cid /\ ~is_robot(S, k)) =>
                          LET T == handle_control_release(S, k)
                          IN  /\ get_robot_controller(T, e.cid) # c
                              /\ Range(queue_of(S, e.space)) \subseteq {c} =>
                                    get_robot_controller(T, e.cid) = NoClient

\* the pointers of the robots other than c are what they were
OtherLeasesKept(S, c) ==
    \A x \in Range(S.robot_clients) :
        x.cid # c => \E y \in Profiles : y.cid = x.cid /\ y.controlled_by = x.controlled_by

(* C17: when a robot disconnects, its current controller (if any) and every *)
(* waiter in the queue of its space (those still connected) are each sent   *)
(* control_released {robot_id, reason: "Robot disconnected"}, the lease is  *)
(* cleared and the queue of that space is removed; no waiter is promoted.   *)
C17_RobotDisconnectFlushes ==
    \A e \in Profiles :
        e.cid \in connected_clients =>
            LET S    == handle_robot_disconnect(State, e.cid)
                told == (({e.controlled_by} \ {NoClient}) \cup QueuedIn(e.space)) \cap client_websockets
            IN  /\ \A h \in told :
                      Msg(h, "control_released", "Robot disconnected", e.cid) \in Range(S.sent)
                /\ \A m \in Range(S.sent) : m.type = "control_released" /\ m.to \in told
                /\ get_robot_controller(S, e.cid) = NoClient
                /\ ~has_queue(S, e.space)
                /\ OtherLeasesKept(S, e.cid)

\* a robot has just disconnected and both its controller and a waiter were told
C17_Witness ==
    \E m1 \in last.relayed, m2 \in last.relayed :
        /\ m1.to # m2.to
        /\ m1.type = "control_released" /\ m2.type = "control_released"
        /\ m1.text = "Robot disconnected" /\ m2.text = "Robot disconnected"
        /\ m1.ref = m2.ref
        /\ m1.ref \notin connected_clients \cup RobotIds
        /\ {m1.to, m2.to} \subseteq connected_clients
        /\ last.granted = NoClient
        /\ AllQueued = {}
        /\ Controllers = {}

\* positions, in the order of sending, of the messages of one type
PositionsOf(S, type) == {i \in 1..Len(S.sent) : S.sent[i].type = type}

\* positions of the still-connected waiters in the queue of a space
LivePositions(space) ==
    {i \in 1..Len(queue_of(State, space)) : queue_of(State, space)[i] \in client_websockets}

(* C18: when a robot successfully authenticates into a space whose control  *)
(* queue already holds waiters, then after the robot_joined broadcast the   *)
(* first still-connected waiter is sent control_granted and becomes the     *)
(* controller, and the waiters behind it stay queued in their order         *)
(* (queue [H1, H2] becomes [H2] with H1 controlling).                       *)
C18_IdentifyPromotesHead ==
    \A d \in IdentifyInputs \ InvalidInputs :
        LivePositions(d.space) # {} =>
            \A c \in connected_clients :
                LET S == IdentifyOutcome(c, d)
                    q == queue_of(State, d.space)
                    k == Min(LivePositions(d.space))
                IN  ErrorOf(S) = "" =>
                        /\ Msg(q[k], "control_granted", "", c) \in Range(S.sent)
                        /\ get_robot_controller(S, c) = q[k]
                        /\ queue_of(S, d.space) = SubSeq(q, k + 1, Len(q))
                        /\ \A i \in PositionsOf(S, "robot_joined"), j \in PositionsOf(S, "control_granted") :
                              i < j

\* a robot has just joined a space with two waiters: the first was granted
\* control, the second is still queued
C18_Witness ==
    \E m \in last.relayed :
        /\ m.type = "robot_joined"
        /\ m.to = last.granted
        /\ \E e \in Profiles :
              /\ e.cid = m.ref
              /\ e.controlled_by = last.granted
              /\ QueuedIn(e.space) \cap client_websockets # {}
              /\ last.granted \notin QueuedIn(e.space)

\* c holds the lease of a robot bound to the space, in the registries S
ControlsIn(S, c, space) ==
    \E e \in Range(S.robot_clients) : e.space = space /\ e.controlled_by = c

\* c is the last entry of the queue of the space and is in no other queue, in S
TailOfOnly(S, c, space) ==
    /\ queue_of(S, space) # <<>>
    /\ queue_of(S, space)[Len(queue_of(S, space))] = c
    /\ Cardinality({<<i, j>> \in (1..Len(S.control_queues)) \X (1..MaxClients) :
                        j <= Len(S.control_queues[i].queue) /\ S.control_queues[i].queue[j] = c}) = 1

(* C19: after every control_request that is not answered with an error, the *)
(* requester is either the controller of the robot of its space or the tail *)
(* of exactly one control queue, the queue of its current space, and never  *)
(* both controller and queued.                                              *)
C19_ControllerOrTail ==
    \A c \in connected_clients :
        LET S     == handle_control_request(State, c)
            space == get_client_space(State, c)
        IN  ErrorOf(S) = "" =>
                /\ ControlsIn(S, c, space) \/ TailOfOnly(S, c, space)
                /\ ~(ControlsIn(S, c, space) /\ c \in QueuedClients(S))

\* no robot profile names the space
NoRobotBound(space) == \A e \in Profiles : e.space # space

----------------------------------------------------------------------------
(* Conservation and round trips                                             *)

RECURSIVE SumLen(_)
SumLen(qs) == IF qs = <<>> THEN 0 ELSE Len(Head(qs).queue) + SumLen(Tail(qs))

\* entries of all queues plus robots whose lease is held
Outstanding ==
    SumLen(control_queues) + Cardinality({i \in 1..Len(robot_clients) : robot_clients[i].controlled_by # NoClient})

\* C21: the total length of all queues plus the number of robots whose lease
\* is held equals the number of distinct clients whose control_request was
\* accepted (granted or queued) and that have not since released, been
\* released or disconnected.
C21_RequestersConserved == Outstanding = Cardinality(requesters \ {NoClient})

\* the active spaces after c joins the space and then leaves
JoinThenLeave(c, space) == leave_space(join_space(State, c, space).st, c).active_spaces

\* the active spaces with c taken out of the space, an emptied space dropped
WithoutMember(c, space) ==
    IF active_spaces[space] = {c} THEN DropKey(active_spaces, space)
    ELSE [active_spaces EXCEPT ![space] = @ \ {c}]

\* C22 (as stated): a successful join_space followed by leave_space by the
\* same client leaves the active spaces and their member sets as they were
\* before the join, whatever the client's membership was.
C22_JoinLeaveRoundTrip ==
    \A c \in connected_clients, space \in SpaceInputs :
        join_space(State, c, space).ok => JoinThenLeave(c, space) = active_spaces

\* C22 (amended): the round trip restores the active spaces when the client
\* was not a member of the space it joins (in no space, or in another one);
\* when it already was a member, the leave takes it out of that space.
C22_JoinLeaveRestoresNonMember ==
    \A c \in connected_clients, space \in SpaceInputs :
        join_space(State, c, space).ok =>
            JoinThenLeave(c, space) =
                IF c \in get_space_participants(State, space)
                THEN WithoutMember(c, space)
                ELSE active_spaces

\* a member of one space can join another one, and a member can join its own space again
C22_Witness ==
    /\ \E c \in connected_clients, space \in SpaceInputs :
          /\ get_client_space(State, c) \notin {"", space}
          /\ c \in get_space_participants(State, get_client_space(State, c))
          /\ join_space(State, c, space).ok
    /\ \E c \in connected_clients, space \in SpaceInputs :
          /\ c \in get_space_participants(State, space)
          /\ join_space(State, c, space).ok

\* clients that a control_request would be granted to at once
ImmediateGrantees ==
    {c \in connected_clients \ RobotIds : GrantedOf(handle_control_request(State, c)) = c}

\* the lease of the robot granted to c, after c has released it; d, if a
\* client, has requested in between
LeaseAfterRoundTrip(c, d) ==
    LET G     == Then(handle_control_request(State, c))
        robot == find_robot_by_controller(G, c)
        space == get_robot_info(G, robot).space
        Q     == IF d = NoClient THEN G ELSE Then(handle_control_request(G, d))
        R     == handle_control_release(Q, c)
    IN  [formed |-> queue_of(Q, space), queue |-> has_queue(R, space),
         controller |-> get_robot_controller(R, robot)]

\* C23 (as stated): a control_request granted at once and then released by
\* the same client leaves the lease VACANT, and a queue of length 1 formed in
\* between is emptied by the release, no queue object remaining.
C23_RequestReleaseVacant ==
    \A c \in ImmediateGrantees : \A d \in {NoClient} \cup (connected_clients \ {c}) :
        LET L == LeaseAfterRoundTrip(c, d)
        IN  Len(L.formed) <= 1 => (L.controller = NoClient /\ ~L.queue)

\* C23 (amended): released with no waiter, the lease is VACANT; released with
\* one waiter queued in between, the queue object is gone and the lease has
\* passed to that waiter.
C23_RequestReleaseHandsOver ==
    \A c \in ImmediateGrantees : \A d \in {NoClient} \cup (connected_clients \ {c}) :
        LET L == LeaseAfterRoundTrip(c, d)
        IN  /\ L.formed = <<>>  => (L.controller = NoClient /\ ~L.queue)
            /\ L.formed = <<d>> => (L.controller = d /\ ~L.queue)

\* a client can be granted at once, and another one can queue behind it
C23_Witness ==
    \E c \in ImmediateGrantees : \E d \in connected_clients \ {c} :
        LeaseAfterRoundTrip(c, d).formed = <<d>>

----------------------------------------------------------------------------
(* What may change a lease                                                  *)

\* the leases that are held: (robot, controller) pairs
HeldLeases(S) ==
    {[robot |-> e.cid, controller |-> e.controlled_by] :
        e \in {x \in Range(S.robot_clients) : x.controlled_by # NoClient}}

\* C24: a held lease becomes VACANT only through control_release by its
\* controller or its robot, or the disconnect of one of them; a robot_identify
\* (repeated by the robot or sent by anyone), a join_space or a leave_space
\* takes no held lease away.
C24_LeaseChangesOnlyByReleaseOrDisconnect ==
    \A c \in connected_clients :
        /\ \A d \in IdentifyInputs :
              HeldLeases(State) \subseteq
                  HeldLeases(handle_robot_identify(State, c, d.robot_id, d.robot_name,
                                                   d.space, d.secret_key))
        /\ \A space \in SpaceInputs :
              HeldLeases(join_space(State, c, space).st) = HeldLeases(State)
        /\ HeldLeases(leave_space(State, c)) = HeldLeases(State)

----------------------------------------------------------------------------
(* Robot profile and membership                                             *)

\* C28: every client holding a robot profile for a space is a member of
\* that space and of no other active space, and its current-space pointer
\* is that space.
C28_ProfileMatchesMembership ==
    \A e \in Profiles :
        /\ e.cid \in get_space_participants(State, e.space)
        /\ \A s \in DOMAIN active_spaces \ {e.space} : e.cid \notin active_spaces[s]
        /\ get_client_space(State, e.cid) = e.space

----------------------------------------------------------------------------
(* The receive loop and its exits                                           *)

\* connections accepted so far whose receive loop has ended
Ended == {c \in 1..next_id : c \notin connected_clients}

\* C26: for every connection, when its read side ends, by EOF or by an
\* exception (one raised inside a handler included), the disconnect cascade
\* has run exactly once and the socket is gone from the socket map; while
\* the loop runs, the cascade has not run.
C26_CascadeOnceThenSocketRemoved ==
    /\ \A c \in Ended :
          /\ endings[c].cascades = 1
          /\ endings[c].cause \in {"eof", "frame"}
          /\ c \notin client_websockets
    /\ \A c \in connected_clients : endings[c].cascades = 0
    /\ \A c \in connected_clients : \A read \in ReadInputs :
          LET R == websocket_endpoint(State, c, read)
          IN  R.cause # "" =>
                /\ R.cascades = 1
                /\ c \notin R.st.connected_clients
                /\ c \notin R.st.client_websockets

\* one connection has ended by EOF and another by an exception
C26_Witness ==
    \E c, d \in Ended : endings[c].cause = "eof" /\ endings[d].cause = "frame"

\* frames that are not a JSON object
Malformed == {f \in FrameInputs : f.json \in {"invalid", "not_object"}}

\* C27: no frame a client sends closes its connection: the loop goes on
\* after every frame, no disconnect cascade runs, and a malformed frame
\* (not JSON, or JSON that is no object) is answered with a single error to
\* the sender.
C27_NoFrameClosesConnection ==
    \A c \in connected_clients : \A f \in FrameInputs :
        LET R == websocket_endpoint(State, c, f)
        IN  /\ c \in R.st.connected_clients
            /\ R.cascades = 0
            /\ f \in Malformed => R.st.sent = <<Msg(c, "error", "Invalid JSON", NoClient)>>

----------------------------------------------------------------------------
(* Interleaving at the sends                                                *)

\* C25: no set_angles of a client is accepted and forwarded to a robot
\* before the send of control_granted to that client for that robot has
\* completed, however the handlers interleave at their sends.
C25_GrantedBeforeSetAngles ==
    \A c \in Clients :
        tasks[c].pending.type = "set_angles" =>
            [to |-> c, robot |-> tasks[c].pending.to] \in emitted

\* C29: every grant writes the controller pointer while the lease is VACANT;
\* a promotion never replaces an existing controller, also when release and
\* disconnect handlers for the same robot interleave at a send.
C29_GrantOnlyWhenVacant ==
    \A c \in Clients : tasks[c].replaced = NoClient

\* what refers to client x in the arbiter: the robots it controls, the
\* controller of robot x, the waiters queued in the space of robot x
RefersTo(x) ==
    {<<"controls", e.cid>> : e \in {y \in Profiles : y.controlled_by = x}}
    \cup {<<"controlled_by", e.controlled_by>> :
             e \in {y \in Profiles : y.cid = x /\ y.controlled_by # NoClient}}
    \cup {<<"waits", w>> : w \in UNION {QueuedIn(e.space) : e \in {y \in Profiles : y.cid = x}}}

\* C30: from the start of the disconnect cascade of a connection to its
\* registry cleanup, no step of another connection's handler grants it
\* control, grants control of it as a robot, or queues a waiter behind it.
C30_CascadeAtomic ==
    [][\A x \in Clients :
          (tasks[x].closing /\ tasks'[x] = tasks[x]) => RefersTo(x)' \subseteq RefersTo(x)]_vars

(* C31: a control_offer from a sender whose space has no robot bound is      *)
(* answered with an error message to the sender, and nothing is forwarded   *)
(* or broadcast.                                                            *)
C31_OfferWithoutRobotRejected ==
    \A c \in connected_clients, offer \in OfferInputs \ {""} :
        (get_client_space(State, c) # "" /\ RobotsInSpaceOf(c) = {}) =>
            OnlyErrorTo(handle_control_offer(State, c, offer), c)

----------------------------------------------------------------------------
(* Repeated requests and releases of waiters                                *)

\* the places where c occurs in the queue q
Places(q, c) == {i \in 1..Len(q) : q[i] = c}

(* C32: control_request is idempotent for a waiting client: a request of a  *)
(* client already in the queue of its space leaves every queue and every    *)
(* lease as it is, and every control_pending reply carries the 1-based      *)
(* index the requester has in the queue of its space when the reply is      *)
(* sent, whether or not a robot is bound to the space.                      *)
C32_RequestIdempotentForWaiter ==
    \A c \in connected_clients :
        LET space == get_client_space(State, c)
            S     == handle_control_request(State, c)
            T     == handle_control_request(Then(S), c)
        IN  /\ (space # "" /\ c \in QueuedIn(space)) =>
                  /\ S.control_queues = control_queues
                  /\ S.robot_clients = robot_clients
            /\ \A m \in OfType(S, "control_pending") :
                  /\ m.to = c
                  /\ Places(queue_of(S, space), c) = {m.ref}
                  /\ T.control_queues = S.control_queues
                  /\ T.robot_clients = S.robot_clients
                  /\ OfType(T, "control_pending") = {m}

\* the head of a queue of two can ask again and is told position 1
C32_Witness ==
    \E c \in connected_clients :
        LET space == get_client_space(State, c)
        IN  /\ space # ""
            /\ c \in QueuedIn(space)
            /\ OfType(handle_control_request(State, c), "control_pending") # {}
            /\ NoRobotBound(space)
            /\ Len(queue_of(State, space)) = 2
            /\ Head(queue_of(State, space)) = c

\* the queue with every entry of c taken out
Without(q, c) == SelectSeq(q, LAMBDA h : h # c)

\* the queues with c taken out of the i-th one, which is dropped when that empties it
DequeuedAt(i, c) ==
    IF Without(control_queues[i].queue, c) = <<>>
    THEN RemoveAt(control_queues, i)
    ELSE [control_queues EXCEPT ![i].queue = Without(@, c)]

\* clients that are neither a robot nor the controller of one
Bystanders == connected_clients \ (RobotIds \cup Controllers)

(* C33: control_release from a client that is neither a robot nor a         *)
(* controller takes that client out of one queue it waits in and changes    *)
(* nothing else: every lease, the order of the other waiters and every      *)
(* other queue are as before, nobody is promoted and no message is sent;    *)
(* from a client that is in no queue it changes nothing at all.             *)
C33_WaiterReleaseOnlyDequeues ==
    \A c \in Bystanders :
        LET S == handle_control_release(State, c)
        IN  /\ S.sent = <<>>
            /\ [S EXCEPT !.control_queues = control_queues] = State
            /\ IF c \in AllQueued
               THEN \E i \in 1..Len(control_queues) :
                        /\ c \in Range(control_queues[i].queue)
                        /\ S.control_queues = DequeuedAt(i, c)
               ELSE S.control_queues = control_queues

\* the only waiter behind a held lease releases: the queue goes, the lease stays
C33_Witness ==
    \E c \in Bystanders, e \in Profiles :
        /\ e.controlled_by \in connected_clients
        /\ queue_of(State, e.space) = <<c>>
        /\ LET S == handle_control_release(State, c)
           IN  /\ ~has_queue(S, e.space)
               /\ get_robot_controller(S, e.cid) = e.controlled_by

----------------------------------------------------------------------------
(* Roles, leases and membership                                             *)

\* the robots whose lease c holds
ControlledBy(c) == {e.cid : e \in {x \in Profiles : x.controlled_by = c}}

(* C34: a client is the controller of at most one robot at any time: no     *)
(* sequence of requests, joins of another space, promotions and releases    *)
(* makes one client id the controlled_by of two robots.                     *)
C34_AtMostOneLeasePerClient ==
    \A c \in Clients : Cardinality(ControlledBy(c)) <= 1

(* C35: roles are exclusive: in every reachable state no client id is       *)
(* registered both as a robot and as a human, and no robot is its own       *)
(* controller or waits in a control queue.                                  *)
C35_RolesExclusive ==
    /\ RobotIds \cap human_clients = {}
    /\ \A e \in Profiles : e.controlled_by # e.cid
    /\ RobotIds \cap AllQueued = {}

(* C36: membership and the space pointer agree: in every reachable state a  *)
(* client id is in the member set of active space s exactly when the        *)
(* client's current-space pointer is s, so a client is a member of at most  *)
(* one active space.                                                        *)
C36_MembershipMatchesPointer ==
    \A c \in Clients, s \in CatalogIds :
        c \in get_space_participants(State, s) <=> get_client_space(State, c) = s

----------------------------------------------------------------------------
(* Waiters under interleaving                                               *)

\* the step is one of the robot r's disconnect cascade
CascadeStepOf(r) == is_robot(State, r) /\ tasks'[r].closing /\ (RaceDisconnect(r) \/ Resume(r))

(* C37: no waiter is lost: a client that waits in a control queue stays     *)
(* queued until it is granted control, releases, disconnects, or the        *)
(* robot's disconnect flushes the queue; a promotion resumed after its      *)
(* control_granted send does not delete a queue that holds a requester.     *)
C37_NoWaiterLost ==
    [][\A w \in Clients :
          (w \in AllQueued /\ w \in client_websockets /\ w \notin AllQueued') =>
              \/ \E i \in 1..Len(robot_clients') : robot_clients'[i].controlled_by = w
              \/ RaceControlRelease(w)
              \/ RaceDisconnect(w)
              \/ Resume(w)
              \/ \E r \in Clients : CascadeStepOf(r)]_vars

(* C38: no waiter starves behind a free robot: whenever no handler is in    *)
(* progress, a space with a robot profile bound whose lease is VACANT has   *)
(* no connected client waiting in its control queue.                        *)
C38_NoWaiterBehindFreeRobot ==
    \A e \in Profiles :
        (e.cid \in connected_clients /\ e.controlled_by = NoClient) =>
            QueuedIn(e.space) \cap client_websockets = {}

----------------------------------------------------------------------------
(* Leaving a space while its members change.                               *)

\* no handler of any connection is in progress
Quiescent == \A c \in Clients : tasks[c].pc = "idle"

\* C39: leave_space always runs to completion, also when another member of the
\* space leaves or disconnects while its user_left broadcast is suspended: no
\* handler ends with an exception; once the handlers are done, a client that
\* was taken out of the member set of its space has no space pointer left, and
\* no emptied member set is kept.
C39_LeaveSpaceCompletes ==
    /\ \A c \in Clients : ~tasks[c].raised
    /\ Quiescent =>
          /\ \A c \in Clients :
                get_client_space(State, c) # "" =>
                    c \in get_space_participants(State, get_client_space(State, c))
          /\ \A space \in DOMAIN active_spaces : active_spaces[space] # {}

----------------------------------------------------------------------------
(* Broadcasts stay within the sender's space.                              *)

SpaceMessages == {"offer", "answer", "ice_candidate", "user_joined", "user_left", "robot_joined"}

\* every space message that S carries goes to a client other than c whose
\* space pointer names the space
WithinSpace(S, c, space) ==
    \A m \in Range(S.sent) :
        m.type \in SpaceMessages => m.to # c /\ get_client_space(S, m.to) = space

\* C40: an offer, answer, ice_candidate, user_joined, user_left or robot_joined
\* that a sender in a space triggers is delivered only to clients whose current
\* space is that space, and never to the sender.
C40_BroadcastsStayInSpace ==
    \A c \in connected_clients :
        /\ \A offer \in OfferInputs :
              WithinSpace(handle_offer(State, c, offer), c, get_client_space(State, c))
        /\ \A answer \in AnswerInputs :
              WithinSpace(handle_answer(State, c, answer), c, get_client_space(State, c))
        /\ \A candidate \in CandidateInputs :
              WithinSpace(handle_ice_candidate(State, c, candidate), c, get_client_space(State, c))
        /\ \A space \in SpaceInputs :
              WithinSpace(join_space(State, c, space).st, c, space)
        /\ WithinSpace(leave_space(State, c), c, get_client_space(State, c))
        /\ \A d \in IdentifyInputs :
              WithinSpace(handle_robot_identify(State, c, d.robot_id, d.robot_name, d.space, d.secret_key),
                          c, d.space)

====
